---- MODULE Spec2Model ----
(***************************************************************************)
(* The ingestion pipeline of logseq-linter: Indexer::index_files,          *)
(* Indexer::index_blocks, Indexer::graph_link (src/src/indexer.rs),        *)
(* BlockBuilder::build and Block's graph methods                           *)
(* (src/src/parsing/block.rs) and FileBuilder (src/src/parsing/file.rs),   *)
(* together with the document store they write to and read from.           *)
(***************************************************************************)
EXTENDS Naturals, Sequences, FiniteSets, TLC

\* ------------------------------------------------------------------ bounds

\* Longest walk (number of entries the walker yields).
MaxDocs == 2
\* Largest list-item subtree handed to BlockBuilder::build on its own.
MaxNodes == 4

\* ------------------------------------------------------------------- texts

\* A text is the sequence of its characters. The character classes of the
\* regular expressions, over ASCII:
Lower ==
    {"a", "b", "c", "d", "e", "f", "g", "h", "i", "j", "k", "l", "m",
     "n", "o", "p", "q", "r", "s", "t", "u", "v", "w", "x", "y", "z"}

Upper ==
    {"A", "B", "C", "D", "E", "F", "G", "H", "I", "J", "K", "L", "M",
     "N", "O", "P", "Q", "R", "S", "T", "U", "V", "W", "X", "Y", "Z"}

Digit == {"0", "1", "2", "3", "4", "5", "6", "7", "8", "9"}

\* [a-f0-9-]
Hex == {"a", "b", "c", "d", "e", "f", "-"} \cup Digit

\* \w
Word == Lower \cup Upper \cup Digit \cup {"_"}

\* \s, and what str::trim strips, among the ASCII characters the texts are
\* made of: blank, \t, \n, vertical tab (U+000B), form feed, \r.
Space == {" ", "\t", "\n", "", "\f", "\r"}

RECURSIVE RunEnd(_, _, _), trim_start(_), trim_end(_)

\* A greedy `[class]*` from position i: the position of the last character it
\* takes, i - 1 when it takes none.
RunEnd(s, i, class) ==
    IF i <= Len(s) /\ s[i] \in class THEN RunEnd(s, i + 1, class) ELSE i - 1

\* The literal lit stands in s at position i.
HasAt(s, i, lit) ==
    /\ i >= 1
    /\ i + Len(lit) - 1 <= Len(s)
    /\ SubSeq(s, i, i + Len(lit) - 1) = lit

trim_start(s) ==
    IF s # <<>> /\ Head(s) \in Space THEN trim_start(Tail(s)) ELSE s

trim_end(s) ==
    IF s # <<>> /\ s[Len(s)] \in Space THEN trim_end(SubSeq(s, 1, Len(s) - 1)) ELSE s

\* str::trim
trim(s) == trim_end(trim_start(s))

\* The least element of a non-empty set of positions.
Least(S) == CHOOSE i \in S : \A j \in S : i <= j

\* Regex::new("id:: ([a-f0-9-]+)"): the positions at which it matches.
id_matches(s) ==
    {i \in DOMAIN s : HasAt(s, i, <<"i", "d", ":", ":", " ">>)
                        /\ i + 5 <= Len(s) /\ s[i + 5] \in Hex}

RECURSIVE lines(_), split(_, _), declared_tags(_, _), trim_all(_, _), file_properties(_, _, _)

\* A line without the `\r` of a `\r\n` ending.
strip_cr(line) ==
    IF line # <<>> /\ line[Len(line)] = "\r" THEN SubSeq(line, 1, Len(line) - 1) ELSE line

\* str::lines: the lines of s, without their endings; a line break at the
\* very end opens no further line.
lines(s) ==
    LET breaks == {i \in DOMAIN s : s[i] = "\n"}
        n == Least(breaks)
    IN IF s = <<>> THEN <<>>
       ELSE IF breaks = {} THEN <<s>>
       ELSE <<strip_cr(SubSeq(s, 1, n - 1))>> \o lines(SubSeq(s, n + 1, Len(s)))

\* str::split(sep): the parts of s between the occurrences of sep, found
\* from the left without overlap.
split(s, sep) ==
    LET hits == {i \in DOMAIN s : HasAt(s, i, sep)}
        n == Least(hits)
    IN IF hits = {} THEN <<s>>
       ELSE <<SubSeq(s, 1, n - 1)>> \o split(SubSeq(s, n + Len(sep), Len(s)), sep)

\* `.map(|x| x.trim())` over the parts from the k-th on.
trim_all(parts, k) ==
    IF k > Len(parts) THEN <<>> ELSE <<trim(parts[k])>> \o trim_all(parts, k + 1)

TitleKey == <<"t", "i", "t", "l", "e">>

TagsKey == <<"t", "a", "g", "s">>

\* FileBuilder::get_properties, from the k-th line on: a line that `::` splits
\* in two is a key and a value, inserted as they are unless the key is
\* "title" or "tags".
file_properties(ls, k, properties) ==
    IF k > Len(ls) THEN properties
    ELSE LET parts == split(ls[k], <<":", ":">>)
         IN file_properties(ls, k + 1,
                IF Len(parts) = 2 /\ parts[1] \notin {TitleKey, TagsKey}
                THEN (parts[1] :> parts[2]) @@ properties
                ELSE properties)

\* FileBuilder::get_properties
FileBuilder_get_properties(top_text) == file_properties(lines(top_text), 1, <<>>)

\* The second loop of FileBuilder::get_tags, from the k-th line on: the
\* trimmed comma-separated values of each line whose key is "tags".
declared_tags(ls, k) ==
    IF k > Len(ls) THEN <<>>
    ELSE LET parts == split(ls[k], <<":", ":">>)
         IN (IF Len(parts) = 2 /\ parts[1] = TagsKey
             THEN trim_all(split(parts[2], <<",">>), 1)
             ELSE <<>>)
            \o declared_tags(ls, k + 1)

\* ------------------------------------------------------- values and nodes

\* Option::None of parent_block_id.
None == "None"

\* A text of the documents is written in pieces: a word, or one character
\* that is not a word character. The functions on texts take a piece as they
\* take the characters it stands for.
RECURSIVE Str(_), marked(_, _, _, _), listed(_, _)

\* The String of a text.
Str(s) == IF s = <<>> THEN "" ELSE Head(s) \o Str(Tail(s))

\* The text of inline references to the titles from the k-th on, each behind
\* a blank: ` #t` (open = <<"#">>, close = <<>>) or ` [[t]]`.
marked(titles, k, open, close) ==
    IF k > Len(titles) THEN <<>>
    ELSE <<" ">> \o open \o <<titles[k]>> \o close \o marked(titles, k + 1, open, close)

\* The values from the k-th on as a `tags::` line lists them: `v1, v2`.
listed(values, k) ==
    IF k > Len(values) THEN <<>>
    ELSE (IF k > 1 THEN <<",", " ">> ELSE <<>>) \o <<values[k]>> \o listed(values, k + 1)

\* A list item without an `id:: ` in its text.
NoId == <<>>

\* markdown::mdast nodes, as far as the builders match on them. tags and
\* wikilinks are the inline matches in the node's own text; value is, for a
\* Paragraph, the values of its Text children, joined.
MdAst(type, text, did, tags, wikilinks, value, children) ==
    [type |-> type, text |-> text, did |-> did, tags |-> tags,
     wikilinks |-> wikilinks, value |-> value, children |-> children]

\* A Paragraph `p #t1 [[w1]]` with these tags and wikilinks.
Paragraph(tags, wikilinks) ==
    MdAst("Paragraph", "", NoId, tags, wikilinks,
          <<"p">> \o marked(tags, 1, <<"#">>, <<>>)
                  \o marked(wikilinks, 1, <<"[", "[">>, <<"]", "]">>),
          <<>>)

\* A Paragraph whose text is the line `tags:: v1, v2` with these values.
TagsLine(declared) ==
    MdAst("Paragraph", "", NoId, <<>>, <<>>,
          TagsKey \o <<":", ":", " ">> \o listed(declared, 1), <<>>)

\* A node without children (mdast::Node::children is None).
ThematicBreak == MdAst("ThematicBreak", "", NoId, <<>>, <<>>, <<>>, <<>>)

BlockQuote(children) == MdAst("BlockQuote", "", NoId, <<>>, <<>>, <<>>, children)

List(children) == MdAst("List", "", NoId, <<>>, <<>>, <<>>, children)

\* A list item's own text: `text #t1 [[w1]] id:: did`, at its end what the
\* item declares as its id (nothing for NoId).
item_text(text, did, tags, wikilinks) ==
    <<text>> \o marked(tags, 1, <<"#">>, <<>>)
             \o marked(wikilinks, 1, <<"[", "[">>, <<"]", "]">>)
             \o (IF did = NoId THEN <<>> ELSE <<" ", "i", "d", ":", ":", " ">> \o did)

\* The Paragraph a ListItem begins with, holding the item's own text. Its
\* matches are counted with the item.
ItemParagraph(text, did, tags, wikilinks) ==
    MdAst("Paragraph", "", NoId, <<>>, <<>>, item_text(text, did, tags, wikilinks), <<>>)

\* A ListItem: text is its own text span (what get_slice returns), did the
\* text behind the `id:: ` of that span, up to its end (NoId without one), tags and
\* wikilinks what get_tags/get_wikilinks find in that span, its children the
\* paragraph of its own text, then its nested lists.
ListItem(text, did, tags, wikilinks, lists) ==
    MdAst("ListItem", text, did, tags, wikilinks, <<>>,
          <<ItemParagraph(text, did, tags, wikilinks)>> \o lists)

Root(children) == MdAst("Root", "", NoId, <<>>, <<>>, <<>>, children)

\* The nodes for which mdast::Node::children returns Some(..); for every
\* other node (Text, Code, Html, ThematicBreak, Yaml, ...) it is None.
ParentTypes ==
    {"Root", "Paragraph", "Heading", "BlockQuote", "List", "ListItem", "Emphasis",
     "Strong", "Link", "LinkReference", "FootnoteDefinition", "Table", "TableRow",
     "TableCell", "Delete", "MdxJsxFlowElement", "MdxJsxTextElement"}

\* `node.children()`: Some(..) for a node that can have children.
has_children(node) == node.type \in ParentTypes

Range(s) == {s[i] : i \in DOMAIN s}

\* uuid::Uuid::new_v4().to_string(): the n-th identifier generated.
Uuid(n) == "u" \o ToString(n)

\* ------------------------------------------------------------ BlockBuilder

\* The capture of Regex::new("id:: ([a-f0-9-]+)") on the item's slice: the
\* run of [a-f0-9-] behind the first `id:: ` that has one, empty when the
\* regex does not match.
declared_id(item) ==
    LET slice == item_text(item.text, item.did, item.tags, item.wikilinks)
    IN IF id_matches(slice) = {} THEN <<>>
       ELSE LET i == Least(id_matches(slice))
            IN SubSeq(slice, i + 5, RunEnd(slice, i + 5, Hex))

\* BlockBuilder::get_id on the item's slice: the captured token, else a new
\* uuid. Returns the id and the number of uuids generated so far.
get_id(item, n) ==
    IF declared_id(item) # <<>> THEN [id |-> Str(declared_id(item)), n |-> n]
    ELSE [id |-> Uuid(n + 1), n |-> n + 1]

Block(id, content, file_id, parent_block_id, tags, wikilinks) ==
    [id |-> id, content |-> content, file_id |-> file_id,
     parent_block_id |-> parent_block_id, tags |-> tags, wikilinks |-> wikilinks]

RECURSIVE build(_, _, _, _), build_items(_, _, _, _, _), build_children(_, _, _, _, _)

\* Mutant: the nested builders are not given with_parent_block_id.
build_items_no_parent(nodes, k, file_id, id, n) ==
    IF k > Len(nodes) THEN [blocks |-> <<>>, n |-> n]
    ELSE LET first == IF nodes[k].type = "ListItem"
                      THEN build(nodes[k], file_id, None, n)
                      ELSE [blocks |-> <<>>, n |-> n]
             rest == build_items(nodes, k + 1, file_id, id, first.n)
         IN [blocks |-> first.blocks \o rest.blocks, n |-> rest.n]

\* The inner loop of build: `for child in list.children.iter()`, from the k-th.
build_items(nodes, k, file_id, id, n) ==
    IF k > Len(nodes) THEN [blocks |-> <<>>, n |-> n]
    ELSE LET first == IF nodes[k].type = "ListItem"
                      THEN build(nodes[k], file_id, id, n)
                      ELSE [blocks |-> <<>>, n |-> n]
             rest == build_items(nodes, k + 1, file_id, id, first.n)
         IN [blocks |-> first.blocks \o rest.blocks, n |-> rest.n]

\* The outer loop of build: `for child in list_item.children.iter()`, from the k-th.
build_children(nodes, k, file_id, id, n) ==
    IF k > Len(nodes) THEN [blocks |-> <<>>, n |-> n]
    ELSE LET first == IF nodes[k].type = "List"
                      THEN build_items(nodes[k].children, 1, file_id, id, n)
                      ELSE [blocks |-> <<>>, n |-> n]
             rest == build_children(nodes, k + 1, file_id, id, first.n)
         IN [blocks |-> first.blocks \o rest.blocks, n |-> rest.n]

\* Mutant: the item's own Block is pushed before those of its nested items.
build_root_first(list_item, file_id, parent_block_id, n) ==
    LET got == get_id(list_item, n)
        sub == build_children(list_item.children, 1, file_id, got.id, got.n)
        root == Block(got.id, list_item.text, file_id, parent_block_id,
                      list_item.tags, list_item.wikilinks)
    IN [blocks |-> <<root>> \o sub.blocks, n |-> sub.n]

\* BlockBuilder::build: the Blocks of a list item and of its nested items,
\* the item's own Block last. n counts the uuids generated before the call.
build(list_item, file_id, parent_block_id, n) ==
    LET got == get_id(list_item, n)
        sub == build_children(list_item.children, 1, file_id, got.id, got.n)
        root == Block(got.id, list_item.text, file_id, parent_block_id,
                      list_item.tags, list_item.wikilinks)
    IN [blocks |-> Append(sub.blocks, root), n |-> sub.n]

\* ----------------------------------------------------------- Knowledge Graph

\* indexer::GraphNode; Block nodes carry no title.
GraphNode(kind, id, title) == [kind |-> kind, id |-> id, title |-> title]

\* petgraph's UnGraph::default(): nodes by NodeIndex (1-based here), edges in
\* the order add_edge was called (parallel edges are kept).
EmptyGraph == [nodes |-> <<>>, edges |-> <<>>]

add_node(graph, node) == [graph EXCEPT !.nodes = Append(@, node)]

add_edge(graph, a, b) == [graph EXCEPT !.edges = Append(@, <<a, b>>)]

\* graph.node_indices().find(..) over the indices that satisfy the closure:
\* the first of them, 0 for Option::None.
find(hits) ==
    IF hits = {} THEN 0 ELSE CHOOSE i \in hits : \A j \in hits : i <= j

\* Block::get_node_index
get_node_index(block, graph) ==
    find({i \in DOMAIN graph.nodes :
            graph.nodes[i].kind = "Block" /\ graph.nodes[i].id = block.id})

\* The File node a title resolves to, as both add_edges_wikilinks and
\* add_edges_tags look it up: the first File node with that title.
find_title(graph, title) ==
    find({i \in DOMAIN graph.nodes :
            /\ graph.nodes[i].kind = "File"
            /\ graph.nodes[i].title # None
            /\ graph.nodes[i].title = title})

RECURSIVE add_edges_titles(_, _, _, _)

\* Mutant: a title without a File node is skipped.
add_edges_titles_lenient(titles, k, graph, block_id) ==
    IF k > Len(titles) THEN [ok |-> TRUE, graph |-> graph]
    ELSE LET file_id == find_title(graph, titles[k])
         IN IF file_id = 0
            THEN add_edges_titles(titles, k + 1, graph, block_id)
            ELSE add_edges_titles(titles, k + 1, add_edge(graph, file_id, block_id), block_id)

\* The loop shared by add_edges_wikilinks and add_edges_tags, from the k-th
\* title on: the `?` returns at the first title without a File node, leaving
\* the edges added before it in the graph.
add_edges_titles(titles, k, graph, block_id) ==
    IF k > Len(titles) THEN [ok |-> TRUE, graph |-> graph]
    ELSE LET file_id == find_title(graph, titles[k])
         IN IF file_id = 0 THEN [ok |-> FALSE, graph |-> graph]
            ELSE add_edges_titles(titles, k + 1, add_edge(graph, file_id, block_id), block_id)

\* Block::add_edges_wikilinks
add_edges_wikilinks(block, graph, block_id) ==
    add_edges_titles(block.wikilinks, 1, graph, block_id)

\* Block::add_edges_tags
add_edges_tags(block, graph, block_id) ==
    add_edges_titles(block.tags, 1, graph, block_id)

\* Block::add_edges_parent
add_edges_parent(block, graph, block_id) ==
    IF block.parent_block_id = None THEN [ok |-> TRUE, graph |-> graph]
    ELSE LET parent == find({i \in DOMAIN graph.nodes :
                               /\ graph.nodes[i].kind = "Block"
                               /\ graph.nodes[i].id = block.parent_block_id})
         IN IF parent = 0 THEN [ok |-> FALSE, graph |-> graph]
            ELSE [ok |-> TRUE, graph |-> add_edge(graph, parent, block_id)]

\* Mutant: the wikilinks are resolved before the tags.
add_edges_wikilinks_first(block, graph) ==
    LET block_id == get_node_index(block, graph)
        p == add_edges_parent(block, graph, block_id)
        w == add_edges_wikilinks(block, p.graph, block_id)
        t == add_edges_tags(block, w.graph, block_id)
    IN IF block_id = 0 THEN [ok |-> FALSE, graph |-> graph]
       ELSE IF ~p.ok THEN p
       ELSE IF ~w.ok THEN w
       ELSE t

\* Block::add_edges: own node, then parent, tags, wikilinks, each with `?`.
add_edges(block, graph) ==
    LET block_id == get_node_index(block, graph)
        p == add_edges_parent(block, graph, block_id)
        t == add_edges_tags(block, p.graph, block_id)
        w == add_edges_wikilinks(block, t.graph, block_id)
    IN IF block_id = 0 THEN [ok |-> FALSE, graph |-> graph]
       ELSE IF ~p.ok THEN p
       ELSE IF ~t.ok THEN t
       ELSE w

\* Mutant: the node is added and its edges are resolved at once.
add_to_graph_eager(block, graph) ==
    add_edges(block, add_node(graph, GraphNode("Block", block.id, None))).graph

\* Block::add_to_graph
add_to_graph(block, graph) == add_node(graph, GraphNode("Block", block.id, None))

\* ------------------------------------------------------------- FileBuilder

RECURSIVE collect(_, _), collect_all(_, _, _), children_of_all(_, _), paragraph_values(_, _)
RECURSIVE strings(_, _)

\* The inline matches of the raw text, in document order: every tag
\* (field = "tags", the first loop of get_tags) or wikilink (field =
\* "wikilinks", get_wikilinks). FileBuilder scans the whole content, so what
\* the list items carry is found as well.
collect(node, field) ==
    node[field] \o collect_all(node.children, 1, field)

collect_all(nodes, k, field) ==
    IF k > Len(nodes) THEN <<>>
    ELSE collect(nodes[k], field) \o collect_all(nodes, k + 1, field)

\* `.flat_map(|node| node.children().unwrap())` from the k-th node on.
children_of_all(nodes, k) ==
    IF k > Len(nodes) THEN <<>>
    ELSE nodes[k].children \o children_of_all(nodes, k + 1)

\* The Text values of the Paragraphs among `nodes`, from the k-th node on,
\* collected into one text with nothing between them.
paragraph_values(nodes, k) ==
    IF k > Len(nodes) THEN <<>>
    ELSE (IF nodes[k].type = "Paragraph" THEN nodes[k].value ELSE <<>>)
         \o paragraph_values(nodes, k + 1)

\* `.map(|x| x.to_string())` over the texts from the k-th on.
strings(texts, k) ==
    IF k > Len(texts) THEN <<>> ELSE <<Str(texts[k])>> \o strings(texts, k + 1)

\* FileBuilder::get_top_text followed by the second loop of get_tags: the
\* Text values of the Paragraphs that are children of the root's children
\* make one text, and the `tags::` lines of that text declare their values;
\* `unwrap` panics (ok = FALSE) on a child of the root that cannot have
\* children.
top_declared(ast) ==
    IF \E k \in DOMAIN ast.children : ~has_children(ast.children[k])
    THEN [ok |-> FALSE, declared |-> <<>>]
    ELSE LET top_text == paragraph_values(children_of_all(ast.children, 1), 1)
         IN [ok |-> TRUE, declared |-> strings(declared_tags(lines(top_text), 1), 1)]

\* FileBuilder::get_title as the walk sees it: a path is [dir, name] with
\* name already the decoded stem of the file name (FileBuilder_get_title is
\* the function on the characters of a path).
get_title(path) == path.name

NoPath == [dir |-> "", name |-> ""]

NoFile == [id |-> None, path |-> NoPath, title |-> None, tags |-> <<>>, wikilinks |-> <<>>]

\* Mutant: the File's id is made from its path.
File_build_path_id(path, ast, readable, n) ==
    IF ~top_declared(ast).ok THEN [status |-> "panic", file |-> NoFile]
    ELSE IF ~readable THEN [status |-> "err", file |-> NoFile]
    ELSE [status |-> "ok",
          file |-> [id |-> path.dir \o "/" \o path.name, path |-> path,
                    title |-> get_title(path),
                    tags |-> collect(ast, "tags") \o top_declared(ast).declared,
                    wikilinks |-> collect(ast, "wikilinks")]]

\* FileBuilder::build with path and ast set: get_top_text (a panic ends the
\* call), the content read again from the path (`?` returns the error when
\* it is not readable), then one File with a new uuid (the n+1-th generated),
\* its tags the inline matches followed by the declared values.
File_build(path, ast, readable, n) ==
    IF ~top_declared(ast).ok THEN [status |-> "panic", file |-> NoFile]
    ELSE IF ~readable THEN [status |-> "err", file |-> NoFile]
    ELSE [status |-> "ok",
          file |-> [id |-> Uuid(n + 1), path |-> path, title |-> get_title(path),
                    tags |-> collect(ast, "tags") \o top_declared(ast).declared,
                    wikilinks |-> collect(ast, "wikilinks")]]

\* File::add_to_graph
File_add_to_graph(file, graph) ==
    add_node(graph, GraphNode("File", file.id, file.title))

\* File::get_node_index
File_get_node_index(file, graph) ==
    find({i \in DOMAIN graph.nodes :
            graph.nodes[i].kind = "File" /\ graph.nodes[i].id = file.id})

\* File::add_edges: own node, then tags, then wikilinks.
File_add_edges(file, graph) ==
    LET file_id == File_get_node_index(file, graph)
        t == add_edges_titles(file.tags, 1, graph, file_id)
        w == add_edges_titles(file.wikilinks, 1, t.graph, file_id)
    IN IF file_id = 0 THEN [ok |-> FALSE, graph |-> graph]
       ELSE IF ~t.ok THEN t
       ELSE w

\* ---------------------------------------------------------- document store

\* The two collections, each a map from id to document.
EmptyDb == [files |-> <<>>, blocks |-> <<>>]

RECURSIVE upsert(_, _, _)

\* add_documents(docs, Some("id")) once the store has processed it: each
\* document replaces the one stored under its id, in the order given.
upsert(coll, docs, k) ==
    IF k > Len(docs) THEN coll
    ELSE upsert((docs[k].id :> docs[k]) @@ coll, docs, k + 1)

\* A task of the store: the collection written, the documents, whether the
\* store has processed it, and the pass that submitted it.
Task(index, docs, pass) ==
    [index |-> index, docs |-> docs, status |-> "enqueued", pass |-> pass]

\* ------------------------------------------------------------------ inputs

Leaf(text, did, tags, wikilinks) ==
    ListItem(text, did, tags, wikilinks, <<>>)

\* The documents' trees (the children of the root) the walker may deliver:
\* a page without blocks; a page tagged #b; a nested block with a declared
\* id, its child linking [[b]], and a second top-level block; a bare top-level list item tagged #a; a block tagged with a title
\* no file has; a block with a declared id and a wikilink no file has; the
\* hierarchy of tests::test_index_blocks; a block that names the page a both
\* as a tag and as a wikilink; a quoted `tags:: b` line in front of a block
\* tagged #a; a page that is a thematic break.
Bodies ==
    { <<Paragraph(<<>>, <<>>)>>,
      <<Paragraph(<<"b">>, <<>>)>>,
      <<List(<<ListItem("t1", <<"a", "1">>, <<>>, <<>>,
                        <<List(<<Leaf("t2", NoId, <<>>, <<"b">>)>>)>>),
               Leaf("t3", NoId, <<>>, <<>>)>>)>>,
      <<Leaf("t1", NoId, <<"a">>, <<>>)>>,
      <<List(<<ListItem("Lorem", NoId, <<>>, <<>>,
                        <<List(<<Leaf("Ipsum", NoId, <<>>, <<>>),
                                 ListItem("Dolor", NoId, <<>>, <<>>,
                                          <<List(<<Leaf("Sit", NoId, <<>>, <<>>)>>)>>)>>)>>),
               Leaf("Amet", NoId, <<>>, <<>>)>>)>>,
      <<List(<<Leaf("t1", NoId, <<"zz">>, <<>>)>>)>>,
      <<List(<<Leaf("t1", <<"a", "1">>, <<>>, <<"zz">>)>>)>>,
      <<List(<<Leaf("t1", NoId, <<"a">>, <<"a">>)>>)>>,
      <<BlockQuote(<<TagsLine(<<"b">>)>>), List(<<Leaf("t1", NoId, <<"a">>, <<>>)>>)>>,
      <<ThematicBreak>> }

\* The files of the tree walked: two directories, so that two files may have
\* the same name and with it the same title.
Paths ==
    { [dir |-> "p", name |-> "a"], [dir |-> "q", name |-> "a"],
      [dir |-> "p", name |-> "b"] }

\* What MdWalker::next yields: Ok((path, ast, content)) or Err(msg).
Entries ==
    {[ok |-> TRUE, path |-> p, ast |-> Root(b)] : p \in Paths, b \in Bodies}
      \cup {[ok |-> FALSE, path |-> NoPath, ast |-> Root(<<>>)]}

\* The walks: at most MaxDocs entries, no file delivered twice.
Walks ==
    UNION { { w \in [1..n -> Entries] :
                \A i, j \in 1..n : (i # j /\ w[i].ok /\ w[j].ok) => w[i].path # w[j].path }
            : n \in 0..MaxDocs }

\* ------------------------------------------------------------------- state

VARIABLES
    walk,          \* index_files: the collected walker items
    index_blocks,  \* index_files: the flag
    pc,            \* where index_files stands
    error,         \* the kind of the Err index_files returned: input | store | link
    cursor,        \* index_files: the walk entry of the current iteration
    doc,           \* index_files: the File being ingested
    items,         \* index_blocks: the list items its loops have still to visit
    btasks,        \* index_blocks: its `tasks`, the handles not yet awaited
    ftasks,        \* index_files: its `tasks`, the handles not yet awaited
    block_ids,     \* graph_link: Block ids still to link
    file_ids,      \* graph_link: File ids still to link
    graph,         \* Indexer.graph
    uuid,          \* number of uuids generated so far
    queue,         \* the store's tasks, by task uid
    db,            \* the store's collections
    awaited,       \* the task uids whose completion a wait has observed
    ent,           \* for each graph node, the file (and list item) it stands for
    pass,          \* 1 in the first run of the program, 2 in the second
    prev,          \* outcome and edges of the first run, once a second has begun
    bIn,           \* the list item last given to BlockBuilder::build
    bOut,          \* the blocks it returned (new_blocks)
    input,         \* the text last given to one of the builders' extraction functions
    output         \* the calls of those functions so far: function and value returned

vars ==
    <<walk, index_blocks, pc, error, cursor, doc, items, btasks, ftasks, block_ids,
      file_ids, graph, uuid, queue, db, awaited, ent, pass, prev, bIn, bOut,
      input, output>>

NoPrev == [outcome |-> None, edges |-> {}, walk |-> <<>>]

NoItem == Leaf("", NoId, <<>>, <<>>)

\* Indexer::new(), and index_files up to its loop.
Init ==
    /\ walk \in Walks
    /\ index_blocks \in BOOLEAN
    /\ pc = "walk"
    /\ error = None
    /\ cursor = 1
    /\ doc = NoFile
    /\ items = <<>>
    /\ btasks = <<>>
    /\ ftasks = <<>>
    /\ block_ids = <<>>
    /\ file_ids = <<>>
    /\ graph = EmptyGraph
    /\ uuid = 0
    /\ queue = <<>>
    /\ db = EmptyDb
    /\ awaited = {}
    /\ ent = <<>>
    /\ pass = 1
    /\ prev = NoPrev
    /\ bIn = NoItem
    /\ bOut = <<>>
    /\ input = <<>>
    /\ output = <<>>

\* ------------------------------------------------------------ index_files

\* The entity a graph node stands for: the file, and for a Block its content.
Entity(path, content) == [path |-> path, content |-> content]

RECURSIVE list_items(_, _), top_items(_, _), add_blocks_to_graph(_, _, _)

\* index_blocks' inner loop over a top-level List: its list items.
list_items(nodes, k) ==
    IF k > Len(nodes) THEN <<>>
    ELSE (IF nodes[k].type = "ListItem"
          THEN <<[item |-> nodes[k], in_list |-> TRUE]>> ELSE <<>>)
         \o list_items(nodes, k + 1)

\* index_blocks' loops over the root's children, as the list items they visit
\* in order: those of each List, and each ListItem that is itself a child of
\* the root (in_list = FALSE).
top_items(nodes, k) ==
    IF k > Len(nodes) THEN <<>>
    ELSE (IF nodes[k].type = "List" THEN list_items(nodes[k].children, 1)
          ELSE IF nodes[k].type = "ListItem"
               THEN <<[item |-> nodes[k], in_list |-> FALSE]>>
               ELSE <<>>)
         \o top_items(nodes, k + 1)

\* `for block in new_blocks.iter() { block.add_to_graph(&mut self.graph) }`
add_blocks_to_graph(blocks, k, g) ==
    IF k > Len(blocks) THEN g
    ELSE add_blocks_to_graph(blocks, k + 1, add_to_graph(blocks[k], g))

\* Mutant: the error is reported and the run goes on.
fail_reported(kind) ==
    /\ pc' = pc
    /\ error' = kind

\* index_files returns Err: nothing of the Indexer changes any more.
fail(kind) ==
    /\ pc' = "failed"
    /\ error' = kind

\* `FileBuilder::new().with_path(path.clone()).build(..)` on the entry the
\* loop stands at, the file being readable or not.
built(readable) == File_build(walk[cursor].path, walk[cursor].ast, readable, uuid)

\* One iteration of index_files' loop on an Ok entry, up to the call of
\* index_blocks: the File is built and its node added.
next_file ==
    /\ pc = "walk"
    /\ cursor <= Len(walk)
    /\ walk[cursor].ok
    /\ built(TRUE).status = "ok"
    /\ LET file == built(TRUE).file
       IN /\ doc' = file
          /\ graph' = File_add_to_graph(file, graph)
          /\ ent' = Append(ent, Entity(file.path, ""))
    /\ uuid' = uuid + 1
    /\ IF index_blocks
       THEN /\ pc' = "blocks"
            /\ items' = top_items(walk[cursor].ast.children, 1)
       ELSE /\ pc' = "fsubmit"
            /\ items' = <<>>
    /\ btasks' = <<>>
    /\ bIn' = NoItem
    /\ bOut' = <<>>
    /\ UNCHANGED <<walk, index_blocks, error, cursor, ftasks, block_ids, file_ids,
                   queue, db, awaited, pass, prev, input, output>>

\* ... or build returns Err (the file cannot be read any more): `?` returns
\* the error from index_files.
next_file_build_fails ==
    /\ pc = "walk"
    /\ cursor <= Len(walk)
    /\ walk[cursor].ok
    /\ built(FALSE).status = "err"
    /\ fail("build")
    /\ UNCHANGED <<walk, index_blocks, cursor, doc, items, btasks, ftasks, block_ids,
                   file_ids, graph, uuid, queue, db, awaited, ent, pass, prev, bIn, bOut, input, output>>

\* ... or build panics in get_top_text: index_files is unwound.
next_file_panics ==
    /\ pc = "walk"
    /\ cursor <= Len(walk)
    /\ walk[cursor].ok
    /\ \E readable \in BOOLEAN : built(readable).status = "panic"
    /\ fail("panic")
    /\ UNCHANGED <<walk, index_blocks, cursor, doc, items, btasks, ftasks, block_ids,
                   file_ids, graph, uuid, queue, db, awaited, ent, pass, prev, bIn, bOut, input, output>>

\* One iteration of index_files' loop on an Err entry: `return Err(msg)`.
walker_error ==
    /\ pc = "walk"
    /\ cursor <= Len(walk)
    /\ ~walk[cursor].ok
    /\ fail("input")
    /\ UNCHANGED <<walk, index_blocks, cursor, doc, items, btasks, ftasks, block_ids,
                   file_ids, graph, uuid, queue, db, awaited, ent, pass, prev, bIn, bOut, input, output>>

\* The Blocks index_blocks builds for the list item its loops stand at.
new_blocks == build(Head(items).item, doc.id, None, uuid)

\* index_blocks on one list item, up to the await of add_documents: the
\* Blocks are built and, for an item of a List, their nodes added; the write
\* has been handed to the store and the future is suspended until it answers.
build_item ==
    /\ pc = "blocks"
    /\ items # <<>>
    /\ graph' = IF Head(items).in_list
                THEN add_blocks_to_graph(new_blocks.blocks, 1, graph)
                ELSE graph
    /\ ent' = IF Head(items).in_list
              THEN ent \o [k \in DOMAIN new_blocks.blocks |->
                             Entity(doc.path, new_blocks.blocks[k].content)]
              ELSE ent
    /\ uuid' = new_blocks.n
    /\ bIn' = Head(items).item
    /\ bOut' = new_blocks.blocks
    /\ pc' = "bsubmit"
    /\ UNCHANGED <<walk, index_blocks, error, cursor, doc, items, btasks, ftasks, block_ids,
                   file_ids, queue, db, awaited, pass, prev, input, output>>

\* `blocks_index.add_documents(&new_blocks, Some("id")).await?` enqueued the
\* write: its handle is pushed and the loop goes on to the next item.
index_item ==
    /\ pc = "bsubmit"
    /\ queue' = Append(queue, Task("blocks", bOut, pass))
    /\ btasks' = Append(btasks, Len(queue) + 1)
    /\ items' = Tail(items)
    /\ pc' = "blocks"
    /\ UNCHANGED <<walk, index_blocks, error, cursor, doc, ftasks, block_ids, file_ids,
                   graph, uuid, db, awaited, ent, pass, prev, bIn, bOut, input, output>>

\* ... or failed: `?` returns the error.
index_item_fails ==
    /\ pc = "bsubmit"
    /\ fail("store")
    /\ UNCHANGED <<walk, index_blocks, cursor, doc, items, btasks, ftasks, block_ids,
                   file_ids, graph, uuid, queue, db, awaited, ent, pass, prev, bIn, bOut, input, output>>

\* Mutant: index_blocks returns without its wait loop.
blocks_submitted_no_wait ==
    /\ pc = "blocks"
    /\ items = <<>>
    /\ pc' = "fsubmit"
    /\ UNCHANGED <<walk, index_blocks, error, cursor, doc, items, btasks, ftasks, block_ids,
                   file_ids, graph, uuid, queue, db, awaited, ent, pass, prev, bIn, bOut, input, output>>

\* index_blocks' loops are over: on to its wait loop.
blocks_submitted ==
    /\ pc = "blocks"
    /\ items = <<>>
    /\ pc' = "bwait"
    /\ UNCHANGED <<walk, index_blocks, error, cursor, doc, items, btasks, ftasks, block_ids,
                   file_ids, graph, uuid, queue, db, awaited, ent, pass, prev, bIn, bOut, input, output>>

\* index_blocks' wait loop: wait_for_completion returns once the store has
\* processed the task.
await_block ==
    /\ pc = "bwait"
    /\ btasks # <<>>
    /\ queue[Head(btasks)].status = "succeeded"
    /\ awaited' = awaited \cup {Head(btasks)}
    /\ btasks' = Tail(btasks)
    /\ UNCHANGED <<walk, index_blocks, pc, error, cursor, doc, items, ftasks, block_ids,
                   file_ids, graph, uuid, queue, db, ent, pass, prev, bIn, bOut, input, output>>

\* ... or fails.
await_block_fails ==
    /\ pc = "bwait"
    /\ btasks # <<>>
    /\ fail("store")
    /\ UNCHANGED <<walk, index_blocks, cursor, doc, items, btasks, ftasks, block_ids,
                   file_ids, graph, uuid, queue, db, awaited, ent, pass, prev, bIn, bOut, input, output>>

\* index_blocks returns Ok(()).
blocks_done ==
    /\ pc = "bwait"
    /\ btasks = <<>>
    /\ pc' = "fsubmit"
    /\ UNCHANGED <<walk, index_blocks, error, cursor, doc, items, btasks, ftasks, block_ids,
                   file_ids, graph, uuid, queue, db, awaited, ent, pass, prev, bIn, bOut, input, output>>

\* `files.add_documents(&[doc], Some("id")).await?` enqueued the write; its
\* handle is kept and the loop goes on to the next entry.
submit_file ==
    /\ pc = "fsubmit"
    /\ queue' = Append(queue, Task("files", <<doc>>, pass))
    /\ ftasks' = Append(ftasks, Len(queue) + 1)
    /\ cursor' = cursor + 1
    /\ pc' = "walk"
    /\ UNCHANGED <<walk, index_blocks, error, doc, items, btasks, block_ids, file_ids,
                   graph, uuid, db, awaited, ent, pass, prev, bIn, bOut, input, output>>

\* ... or failed.
submit_file_fails ==
    /\ pc = "fsubmit"
    /\ fail("store")
    /\ UNCHANGED <<walk, index_blocks, cursor, doc, items, btasks, ftasks, block_ids,
                   file_ids, graph, uuid, queue, db, awaited, ent, pass, prev, bIn, bOut, input, output>>

\* index_files' loop is over: on to its wait loop.
walk_done ==
    /\ pc = "walk"
    /\ cursor > Len(walk)
    /\ pc' = "fwait"
    /\ UNCHANGED <<walk, index_blocks, error, cursor, doc, items, btasks, ftasks, block_ids,
                   file_ids, graph, uuid, queue, db, awaited, ent, pass, prev, bIn, bOut, input, output>>

\* index_files' wait loop.
await_file ==
    /\ pc = "fwait"
    /\ ftasks # <<>>
    /\ queue[Head(ftasks)].status = "succeeded"
    /\ awaited' = awaited \cup {Head(ftasks)}
    /\ ftasks' = Tail(ftasks)
    /\ UNCHANGED <<walk, index_blocks, pc, error, cursor, doc, items, btasks, block_ids,
                   file_ids, graph, uuid, queue, db, ent, pass, prev, bIn, bOut, input, output>>

\* ... or fails.
await_file_fails ==
    /\ pc = "fwait"
    /\ ftasks # <<>>
    /\ fail("store")
    /\ UNCHANGED <<walk, index_blocks, cursor, doc, items, btasks, ftasks, block_ids,
                   file_ids, graph, uuid, queue, db, awaited, ent, pass, prev, bIn, bOut, input, output>>

\* -------------------------------------------------------------- graph_link

RECURSIVE node_ids(_, _, _)

\* graph_link's first loop: the ids of the nodes of one kind, in node order.
node_ids(nodes, k, kind) ==
    IF k > Len(nodes) THEN <<>>
    ELSE (IF nodes[k].kind = kind THEN <<nodes[k].id>> ELSE <<>>)
         \o node_ids(nodes, k + 1, kind)

\* index_files' wait loop is over: graph_link is called and collects the ids.
start_link ==
    /\ pc = "fwait"
    /\ ftasks = <<>>
    /\ block_ids' = node_ids(graph.nodes, 1, "Block")
    /\ file_ids' = node_ids(graph.nodes, 1, "File")
    /\ pc' = "link"
    /\ UNCHANGED <<walk, index_blocks, error, cursor, doc, items, btasks, ftasks, graph,
                   uuid, queue, db, awaited, ent, pass, prev, bIn, bOut, input, output>>

\* graph_link on one Block id: the Block is read back and adds its edges.
link_block ==
    /\ pc = "link"
    /\ block_ids # <<>>
    /\ Head(block_ids) \in DOMAIN db.blocks
    /\ LET r == add_edges(db.blocks[Head(block_ids)], graph)
       IN /\ graph' = r.graph
          /\ IF r.ok THEN /\ block_ids' = Tail(block_ids)
                          /\ UNCHANGED <<pc, error, input, output>>
             ELSE /\ fail("link")
                  /\ UNCHANGED block_ids
    /\ UNCHANGED <<walk, index_blocks, cursor, doc, items, btasks, ftasks, file_ids,
                   uuid, queue, db, awaited, ent, pass, prev, bIn, bOut, input, output>>

\* ... or get_document fails (the request fails, or nothing is stored under the id).
link_block_read_fails ==
    /\ pc = "link"
    /\ block_ids # <<>>
    /\ fail("store")
    /\ UNCHANGED <<walk, index_blocks, cursor, doc, items, btasks, ftasks, block_ids,
                   file_ids, graph, uuid, queue, db, awaited, ent, pass, prev, bIn, bOut, input, output>>

\* graph_link on one File id, once the Blocks are done.
link_file ==
    /\ pc = "link"
    /\ block_ids = <<>>
    /\ file_ids # <<>>
    /\ Head(file_ids) \in DOMAIN db.files
    /\ LET r == File_add_edges(db.files[Head(file_ids)], graph)
       IN /\ graph' = r.graph
          /\ IF r.ok THEN /\ file_ids' = Tail(file_ids)
                          /\ UNCHANGED <<pc, error, input, output>>
             ELSE /\ fail("link")
                  /\ UNCHANGED file_ids
    /\ UNCHANGED <<walk, index_blocks, cursor, doc, items, btasks, ftasks, block_ids,
                   uuid, queue, db, awaited, ent, pass, prev, bIn, bOut, input, output>>

\* ... or get_document fails.
link_file_read_fails ==
    /\ pc = "link"
    /\ block_ids = <<>>
    /\ file_ids # <<>>
    /\ fail("store")
    /\ UNCHANGED <<walk, index_blocks, cursor, doc, items, btasks, ftasks, block_ids,
                   file_ids, graph, uuid, queue, db, awaited, ent, pass, prev, bIn, bOut, input, output>>

\* graph_link returns Ok(()), and with it index_files.
link_done ==
    /\ pc = "link"
    /\ block_ids = <<>>
    /\ file_ids = <<>>
    /\ pc' = "done"
    /\ UNCHANGED <<walk, index_blocks, error, cursor, doc, items, btasks, ftasks, block_ids,
                   file_ids, graph, uuid, queue, db, awaited, ent, pass, prev, bIn, bOut, input, output>>

\* ---------------------------------------------------------------- the store

\* The store processes its oldest enqueued task: the documents are upserted
\* by id into the task's collection.
store_process ==
    /\ \E k \in DOMAIN queue :
         /\ queue[k].status = "enqueued"
         /\ \A j \in 1..(k - 1) : queue[j].status = "succeeded"
         /\ queue' = [queue EXCEPT ![k].status = "succeeded"]
         /\ db' = [db EXCEPT ![queue[k].index] = upsert(@, queue[k].docs, 1)]
    /\ UNCHANGED <<walk, index_blocks, pc, error, cursor, doc, items, btasks, ftasks,
                   block_ids, file_ids, graph, uuid, awaited, ent, pass, prev, bIn, bOut, input, output>>

\* --------------------------------------------------------- specifications

Next ==
    \/ next_file
    \/ next_file_build_fails
    \/ next_file_panics
    \/ walker_error
    \/ build_item
    \/ index_item
    \/ index_item_fails
    \/ blocks_submitted
    \/ await_block
    \/ await_block_fails
    \/ blocks_done
    \/ submit_file
    \/ submit_file_fails
    \/ walk_done
    \/ await_file
    \/ await_file_fails
    \/ start_link
    \/ link_block
    \/ link_block_read_fails
    \/ link_file
    \/ link_file_read_fails
    \/ link_done
    \/ store_process

\* One run of index_files over a walk.
Spec == Init /\ [][Next]_vars

\* What index_files returned.
Outcome == IF pc = "done" THEN "ok" ELSE error

\* The edges of the graph as pairs of the entities they join.
EntityEdges == {{ent[e[1]], ent[e[2]]} : e \in Range(graph.edges)}

\* The orders in which a walker may deliver the entries of w.
Orders(w) ==
    {[i \in DOMAIN w |-> w[f[i]]] :
       f \in {g \in [DOMAIN w -> DOMAIN w] : \A i, j \in DOMAIN w : i # j => g[i] # g[j]}}

\* A run that the store or the file system made fail; what the documents
\* hold has no part in it.
Disturbed(outcome) == outcome \in {"store", "build"}

\* The program, having met no store or file-system failure, is run again over
\* the same tree: Indexer::new() starts from an empty graph, the walker may
\* deliver the files in another order, and the store, by then idle, keeps
\* what it holds. The first run's outcome and edges are kept.
restart ==
    /\ pass = 1
    /\ pc \in {"done", "failed"}
    /\ ~Disturbed(Outcome)
    /\ \A k \in DOMAIN queue : queue[k].status = "succeeded"
    /\ pass' = 2
    /\ prev' = [outcome |-> Outcome, edges |-> EntityEdges, walk |-> walk]
    /\ walk' \in Orders(walk)
    /\ pc' = "walk"
    /\ error' = None
    /\ cursor' = 1
    /\ doc' = NoFile
    /\ items' = <<>>
    /\ btasks' = <<>>
    /\ ftasks' = <<>>
    /\ block_ids' = <<>>
    /\ file_ids' = <<>>
    /\ graph' = EmptyGraph
    /\ ent' = <<>>
    /\ bIn' = NoItem
    /\ bOut' = <<>>
    /\ UNCHANGED <<index_blocks, uuid, queue, db, awaited, input, output>>

Next2 ==
    \/ Next
    \/ restart

\* Two runs of the program over the same tree.
Spec2 == Init /\ [][Next2]_vars

\* The program is run again over the unchanged tree, the walker delivering
\* the files in the order of the first run.
rerun ==
    /\ restart
    /\ walk' = walk

ReingestNext ==
    \/ Next
    \/ rerun

\* Two runs of the program over the same tree, in the same order.
ReingestSpec == Init /\ [][ReingestNext]_vars

\* graph_link is called once more on the graph it has linked (index_files
\* calls it once; nothing but its privacy keeps the module from calling it
\* again): the ids are collected anew from the same nodes. The edges of the
\* first pass are kept for comparison.
relink ==
    /\ pass = 1
    /\ pc = "done"
    /\ pass' = 2
    /\ prev' = [outcome |-> Outcome, edges |-> graph.edges, walk |-> walk]
    /\ block_ids' = node_ids(graph.nodes, 1, "Block")
    /\ file_ids' = node_ids(graph.nodes, 1, "File")
    /\ pc' = "link"
    /\ UNCHANGED <<walk, index_blocks, error, cursor, doc, items, btasks, ftasks, graph,
                   uuid, queue, db, awaited, ent, bIn, bOut, input, output>>

LinkNext ==
    \/ Next
    \/ relink

\* One run of index_files, and the linking phase once more.
LinkSpec == Init /\ [][LinkNext]_vars

\* ------------------------------------------- BlockBuilder::build on its own

RECURSIVE kids_from(_, _, _), item_of(_, _)

\* The list-item trees of at most MaxNodes items: item 1 is the root, par[i]
\* the item enclosing item i, did[i] its declared id; with split each nested
\* item sits in a List of its own, else all share one List.
Trees ==
    UNION { [n : {n},
             par : {p \in [1..n -> 0..n] : p[1] = 0 /\ \A i \in 2..n : p[i] \in 1..(i - 1)},
             did : [1..n -> {NoId, <<"a", "1">>}],
             split : BOOLEAN]
            : n \in 1..MaxNodes }

kids_from(t, i, j) ==
    IF j > t.n THEN <<>>
    ELSE (IF t.par[j] = i THEN <<j>> ELSE <<>>) \o kids_from(t, i, j + 1)

item_of(t, i) ==
    LET kids == kids_from(t, i, i + 1)
        lists == IF kids = <<>> THEN <<>>
                 ELSE IF t.split
                      THEN [k \in DOMAIN kids |-> List(<<item_of(t, kids[k])>>)]
                      ELSE <<List([k \in DOMAIN kids |-> item_of(t, kids[k])])>>
    IN ListItem("t" \o ToString(i), t.did[i], <<>>, <<>>, lists)

TreeItems == {item_of(t, 1) : t \in Trees}

\* A list item of a file "f" is about to be built.
BuildInit ==
    /\ bIn \in TreeItems
    /\ bOut = <<>>
    /\ pc = "build"
    /\ doc = [NoFile EXCEPT !.id = "f"]
    /\ walk = <<>>
    /\ index_blocks = TRUE
    /\ error = None
    /\ cursor = 1
    /\ items = <<>>
    /\ btasks = <<>>
    /\ ftasks = <<>>
    /\ block_ids = <<>>
    /\ file_ids = <<>>
    /\ graph = EmptyGraph
    /\ uuid = 0
    /\ queue = <<>>
    /\ db = EmptyDb
    /\ awaited = {}
    /\ ent = <<>>
    /\ pass = 1
    /\ prev = NoPrev
    /\ input = <<>>
    /\ output = <<>>

\* BlockBuilder::new().with_file_id(file_id).build(content, list_item)
build_apply ==
    /\ pc = "build"
    /\ bOut' = build(bIn, doc.id, None, uuid).blocks
    /\ uuid' = build(bIn, doc.id, None, uuid).n
    /\ pc' = "built"
    /\ UNCHANGED <<walk, index_blocks, error, cursor, doc, items, btasks, ftasks, block_ids,
                   file_ids, graph, queue, db, awaited, ent, pass, prev, bIn, input, output>>

BuildNext == build_apply

BuildSpec == BuildInit /\ [][BuildNext]_vars

\* ============================================ the builders' text functions

\* Mutant: the generated identifier is not a new one.
BlockBuilder_get_id_stale(content, n) ==
    IF id_matches(content) # {}
    THEN LET i == Least(id_matches(content))
         IN [id |-> SubSeq(content, i + 5, RunEnd(content, i + 5, Hex)), n |-> n]
    ELSE [id |-> Uuid(n + 1), n |-> n]

\* BlockBuilder::get_id on the text itself: group 1 of the first match, else
\* a new uuid (the n+1-th generated). Returns the id and the uuids generated.
BlockBuilder_get_id(content, n) ==
    IF id_matches(content) # {}
    THEN LET i == Least(id_matches(content))
         IN [id |-> SubSeq(content, i + 5, RunEnd(content, i + 5, Hex)), n |-> n]
    ELSE [id |-> Uuid(n + 1), n |-> n + 1]

\* Regex::new(r"([a-z]+):: ([a-z]+)") at position i: the key is the run of
\* lowercase letters from i, then `:: `, then a lowercase letter.
property_at(s, i) ==
    /\ s[i] \in Lower
    /\ HasAt(s, RunEnd(s, i, Lower) + 1, <<":", ":", " ">>)
    /\ RunEnd(s, i, Lower) + 4 <= Len(s)
    /\ s[RunEnd(s, i, Lower) + 4] \in Lower

RECURSIVE properties_from(_, _, _)

\* Mutant: the key "id" is inserted like any other.
properties_from_with_id(s, pos, properties) ==
    LET hits == {i \in pos..Len(s) : property_at(s, i)}
        i == Least(hits)
        j == RunEnd(s, i, Lower)
        e == RunEnd(s, j + 4, Lower)
    IN IF hits = {} THEN properties
       ELSE properties_from(s, e + 1,
                (SubSeq(s, i, j) :> SubSeq(s, j + 4, e)) @@ properties)

\* `for captures in re.captures_iter(content)`, searching on from pos: each
\* match inserts its key and value unless the key is "id", and the search
\* goes on behind the match. properties is the HashMap built so far.
properties_from(s, pos, properties) ==
    LET hits == {i \in pos..Len(s) : property_at(s, i)}
        i == Least(hits)
        j == RunEnd(s, i, Lower)
        e == RunEnd(s, j + 4, Lower)
        k == SubSeq(s, i, j)
        v == SubSeq(s, j + 4, e)
    IN IF hits = {} THEN properties
       ELSE properties_from(s, e + 1,
                IF k # <<"i", "d">> THEN (k :> v) @@ properties ELSE properties)

\* BlockBuilder::get_properties
BlockBuilder_get_properties(content) == properties_from(content, 1, <<>>)

\* Mutant: the bracket pair need not follow whitespace.
wikilink_at_any(s, i) ==
    /\ HasAt(s, i + 1, <<"[", "[">>)
    /\ RunEnd(s, i + 3, Word \cup Space) >= i + 3
    /\ HasAt(s, RunEnd(s, i + 3, Word \cup Space) + 1, <<"]", "]">>)

\* Regex::new(r"\s\[\[([\w\s]+)\]\]") at position i.
wikilink_at(s, i) ==
    /\ s[i] \in Space
    /\ HasAt(s, i + 1, <<"[", "[">>)
    /\ RunEnd(s, i + 3, Word \cup Space) >= i + 3
    /\ HasAt(s, RunEnd(s, i + 3, Word \cup Space) + 1, <<"]", "]">>)

RECURSIVE wikilinks_from(_, _)

\* `for captures in re.captures_iter(content)`: the trimmed group 1 of each
\* match, in match order.
wikilinks_from(s, pos) ==
    LET hits == {i \in pos..Len(s) : wikilink_at(s, i)}
        i == Least(hits)
        j == RunEnd(s, i + 3, Word \cup Space)
    IN IF hits = {} THEN <<>>
       ELSE <<trim(SubSeq(s, i + 3, j))>> \o wikilinks_from(s, j + 3)

\* BlockBuilder::get_wikilinks (FileBuilder::get_wikilinks is the same code)
BlockBuilder_get_wikilinks(content) == wikilinks_from(content, 1)

\* The first alternative of Regex::new(r"(?i)#\[\[([\w\s]+)\]\]|#(\w+)") at i.
bracket_tag_at(s, i) ==
    /\ s[i] = "#"
    /\ HasAt(s, i + 1, <<"[", "[">>)
    /\ RunEnd(s, i + 3, Word \cup Space) >= i + 3
    /\ HasAt(s, RunEnd(s, i + 3, Word \cup Space) + 1, <<"]", "]">>)

\* Its second alternative at i.
word_tag_at(s, i) ==
    /\ s[i] = "#"
    /\ i + 1 <= Len(s)
    /\ s[i + 1] \in Word

RECURSIVE tags_from(_, _)

\* `for captures in re.captures_iter(content)`: group 1 or else group 2 of
\* each match, in match order; at one position the first alternative wins.
tags_from(s, pos) ==
    LET hits == {i \in pos..Len(s) : bracket_tag_at(s, i) \/ word_tag_at(s, i)}
        i == Least(hits)
        j == RunEnd(s, i + 3, Word \cup Space)
        w == RunEnd(s, i + 1, Word)
    IN IF hits = {} THEN <<>>
       ELSE IF bracket_tag_at(s, i)
            THEN <<SubSeq(s, i + 3, j)>> \o tags_from(s, j + 3)
            ELSE <<SubSeq(s, i + 1, w)>> \o tags_from(s, w + 1)

\* BlockBuilder::get_tags
BlockBuilder_get_tags(content) == tags_from(content, 1)

\* ------------------------------------- the Block text functions on their own

\* Longest text, in pieces.
MaxPieces == 4
\* Most calls of get_id on one text.
MaxCalls == 2

\* What the texts are made of: an id declaration, a letter, a line break, a
\* property, a wikilink, a wikilink behind a form feed, a bracket tag and a
\* word tag.
BlockPieces ==
    { <<"i", "d", ":", ":", " ", "a", "1">>,
      <<"x">>,
      <<"\n">>,
      <<"f", "o", "o", ":", ":", " ", "b", "a", "r">>,
      <<" ", "[", "[", "p", " ", "q", "]", "]">>,
      <<"\f", "[", "[", "r", "]", "]">>,
      <<"#", "[", "[", "p", " ", "q", "]", "]">>,
      <<"#", "t">> }

RECURSIVE Concat(_)

Concat(pieces) ==
    IF pieces = <<>> THEN <<>> ELSE Head(pieces) \o Concat(Tail(pieces))

\* The texts of at most MaxPieces pieces.
TextsOf(pieces) ==
    UNION { {Concat(ps) : ps \in [1..n -> pieces]} : n \in 0..MaxPieces }

\* No file is being indexed: the state of the Indexer and of the store.
PipelineIdle ==
    /\ walk = <<>>
    /\ index_blocks = TRUE
    /\ error = None
    /\ cursor = 1
    /\ doc = NoFile
    /\ items = <<>>
    /\ btasks = <<>>
    /\ ftasks = <<>>
    /\ block_ids = <<>>
    /\ file_ids = <<>>
    /\ graph = EmptyGraph
    /\ uuid = 0
    /\ queue = <<>>
    /\ db = EmptyDb
    /\ awaited = {}
    /\ ent = <<>>
    /\ pass = 1
    /\ prev = NoPrev
    /\ bIn = NoItem
    /\ bOut = <<>>

\* The slice of a list item is about to be given to the extraction functions.
BlockTextInit ==
    /\ PipelineIdle
    /\ pc = "text"
    /\ input \in TextsOf(BlockPieces)
    /\ output = <<>>

Call(fn, value) == [fn |-> fn, value |-> value]

\* The calls of one function so far, as positions in output.
CallsOf(fn) == {k \in DOMAIN output : output[k].fn = fn}

\* `let id = Self::get_id(&slice);` -- each call may generate a uuid, so it
\* is called up to MaxCalls times on the text.
get_id_call ==
    /\ pc = "text"
    /\ Len(output) < MaxCalls
    /\ CallsOf("get_id") = DOMAIN output
    /\ output' = Append(output, Call("get_id", BlockBuilder_get_id(input, uuid).id))
    /\ uuid' = BlockBuilder_get_id(input, uuid).n
    /\ UNCHANGED <<walk, index_blocks, pc, error, cursor, doc, items, btasks, ftasks,
                   block_ids, file_ids, graph, queue, db, awaited, ent, pass, prev,
                   bIn, bOut, input>>

\* `let properties = Self::get_properties(&slice);`
get_properties_call ==
    /\ pc = "text"
    /\ output = <<>>
    /\ output' = <<Call("get_properties", BlockBuilder_get_properties(input))>>
    /\ UNCHANGED <<walk, index_blocks, pc, error, cursor, doc, items, btasks, ftasks,
                   block_ids, file_ids, graph, uuid, queue, db, awaited, ent, pass, prev,
                   bIn, bOut, input>>

\* `let wikilinks = Self::get_wikilinks(&slice);`
get_wikilinks_call ==
    /\ pc = "text"
    /\ output = <<>>
    /\ output' = <<Call("get_wikilinks", BlockBuilder_get_wikilinks(input))>>
    /\ UNCHANGED <<walk, index_blocks, pc, error, cursor, doc, items, btasks, ftasks,
                   block_ids, file_ids, graph, uuid, queue, db, awaited, ent, pass, prev,
                   bIn, bOut, input>>

\* `let tags = Self::get_tags(&slice);`
get_tags_call ==
    /\ pc = "text"
    /\ output = <<>>
    /\ output' = <<Call("get_tags", BlockBuilder_get_tags(input))>>
    /\ UNCHANGED <<walk, index_blocks, pc, error, cursor, doc, items, btasks, ftasks,
                   block_ids, file_ids, graph, uuid, queue, db, awaited, ent, pass, prev,
                   bIn, bOut, input>>

BlockTextNext ==
    \/ get_id_call
    \/ get_properties_call
    \/ get_wikilinks_call
    \/ get_tags_call

BlockTextSpec == BlockTextInit /\ [][BlockTextNext]_vars

\* ---------------------------------------------- BlockBuilder::get_slice

\* A document with one top-level list item: the source text and the item as
\* markdown::to_mdast gives it, every node with its position (byte offsets).
\* Item i of a tree is written `- t<i>` at two spaces of indentation per
\* level of nesting, a declared id on a line of its own below.
DigitChar(i) == <<"1", "2", "3", "4", "5", "6", "7", "8", "9">>[i]

Label(i) == <<"t", DigitChar(i)>>

Indent(d) == [k \in 1..(2 * d) |-> " "]

IdLine == <<"i", "d", ":", ":", " ", "a", "1">>

\* The item's own lines.
OwnLines(t, i, d) ==
    <<"-", " ">> \o Label(i)
      \o (IF t.did[i] # NoId THEN <<"\n">> \o Indent(d + 1) \o IdLine ELSE <<>>)

Positioned(type, label, start, end, children) ==
    [type |-> type, label |-> label, position |-> [start |-> start, end |-> end],
     children |-> children]

RECURSIVE render_item(_, _, _, _), render_items(_, _, _, _, _)

\* Item i of tree t at depth d, its marker at offset off: the text from the
\* marker on, and the ListItem node.
render_item(t, i, d, off) ==
    LET own == OwnLines(t, i, d)
        kids == kids_from(t, i, i + 1)
        sub == render_items(t, kids, 1, d + 1, off + Len(own))
        end == off + Len(own) + Len(sub.text)
        para == Positioned("Paragraph", <<>>, off + 2, off + Len(own), <<>>)
        lists == IF kids = <<>> THEN <<>>
                 ELSE <<Positioned("List", <<>>, sub.items[1].position.start, end,
                                   sub.items)>>
    IN [text |-> own \o sub.text,
        item |-> Positioned("ListItem", Label(i), off, end, <<para>> \o lists)]

\* The nested items from the k-th on, each on a new line; off is the offset
\* of the line break in front of the k-th.
render_items(t, kids, k, d, off) ==
    IF k > Len(kids) THEN [text |-> <<>>, items |-> <<>>]
    ELSE LET lead == <<"\n">> \o Indent(d)
             first == render_item(t, kids[k], d, off + Len(lead))
             rest == render_items(t, kids, k + 1, d, off + Len(lead) + Len(first.text))
         IN [text |-> lead \o first.text \o rest.text,
             items |-> <<first.item>> \o rest.items]

\* A line of text above the list, so that the list does not start at offset 0.
TopText == <<"x", "\n", "\n">>

\* The documents: one per tree whose nested items share one List.
Documents ==
    { [content |-> TopText \o render_item(t, 1, 0, Len(TopText)).text \o <<"\n">>,
       item |-> render_item(t, 1, 0, Len(TopText)).item]
      : t \in {u \in Trees : ~u.split} }

RECURSIVE items_under(_), items_in(_, _)

\* A list item and the list items nested in it, at any depth.
items_under(item) ==
    {item} \cup UNION {items_in(item.children[k].children, 1) :
                         k \in {j \in DOMAIN item.children :
                                  item.children[j].type = "List"}}

items_in(nodes, k) ==
    IF k > Len(nodes) THEN {} ELSE items_under(nodes[k]) \cup items_in(nodes, k + 1)

\* `&content[a..b]`: the bytes from offset a up to offset b.
Slice(content, a, b) == SubSeq(content, a + 1, b)

\* The positions of the Lists among the item's children, in order.
list_positions(list_item) ==
    SelectSeq(list_item.children, LAMBDA c : c.type = "List")

\* Mutant: the slice always runs to the item's end.
get_slice_whole(content, list_item) ==
    trim(Slice(content, list_item.position.start, list_item.position.end))

\* BlockBuilder::get_slice
get_slice(content, list_item) ==
    IF list_positions(list_item) # <<>>
    THEN trim(Slice(content, list_item.position.start,
                    list_positions(list_item)[1].position.start))
    ELSE trim(Slice(content, list_item.position.start, list_item.position.end))

SliceInit ==
    /\ PipelineIdle
    /\ pc = "text"
    /\ input \in Documents
    /\ output = <<>>

\* `let slice = self.get_slice(content, list_item)?;` for one of the items.
get_slice_call ==
    /\ pc = "text"
    /\ output = <<>>
    /\ \E it \in items_under(input.item) :
         output' = <<Call("get_slice", [item |-> it,
                                        slice |-> get_slice(input.content, it)])>>
    /\ UNCHANGED <<walk, index_blocks, pc, error, cursor, doc, items, btasks, ftasks,
                   block_ids, file_ids, graph, uuid, queue, db, awaited, ent, pass, prev,
                   bIn, bOut, input>>

SliceNext == get_slice_call

SliceSpec == SliceInit /\ [][SliceNext]_vars

\* ------------------------------------------ FileBuilder's text functions

\* FileBuilder::get_wikilinks
FileBuilder_get_wikilinks(content) == wikilinks_from(content, 1)

\* FileBuilder::get_tags: the inline matches of the whole content, then the
\* values the top text declares.
FileBuilder_get_tags(top_text, content) ==
    tags_from(content, 1) \o declared_tags(lines(top_text), 1)

\* What the top texts are made of: a tags line, a line break, a property, a
\* title line, a word tag, a bracket tag.
FilePieces ==
    { <<"t", "a", "g", "s", ":", ":", " ", "u", ",", " ", "v">>,
      <<"\n">>,
      <<"f", "o", "o", ":", ":", " ", "b", "a", "r">>,
      <<"t", "i", "t", "l", "e", ":", ":", " ", "w">>,
      <<"#", "t">>,
      <<"#", "[", "[", "p", " ", "q", "]", "]">> }

\* What follows the top text in the file: nothing; a list with a tag; two
\* links, one right behind the other; a list whose item holds the same link
\* twice and a bracket tag.
FileBodies ==
    { <<>>,
      <<"\n", "\n", "-", " ", "#", "b">>,
      <<"[", "[", "p", "]", "]", "[", "[", "q", "]", "]">>,
      <<"\n", "\n", "-", " ", "[", "[", "p", "]", "]", " ", "[", "[", "p", "]", "]",
        " ", "#", "[", "[", "q", "]", "]">> }

\* A file is about to be built: its top text and its whole content.
FileTextInit ==
    /\ PipelineIdle
    /\ pc = "text"
    /\ input \in {[top_text |-> t, content |-> t \o b] :
                    t \in TextsOf(FilePieces), b \in FileBodies}
    /\ output = <<>>

\* `let properties = Self::get_properties(&top_text);`
file_get_properties_call ==
    /\ pc = "text"
    /\ output = <<>>
    /\ output' = <<Call("get_properties", FileBuilder_get_properties(input.top_text))>>
    /\ UNCHANGED <<walk, index_blocks, pc, error, cursor, doc, items, btasks, ftasks,
                   block_ids, file_ids, graph, uuid, queue, db, awaited, ent, pass, prev,
                   bIn, bOut, input>>

\* `let tags = Self::get_tags(&top_text, &content);`
file_get_tags_call ==
    /\ pc = "text"
    /\ output = <<>>
    /\ output' = <<Call("get_tags", FileBuilder_get_tags(input.top_text, input.content))>>
    /\ UNCHANGED <<walk, index_blocks, pc, error, cursor, doc, items, btasks, ftasks,
                   block_ids, file_ids, graph, uuid, queue, db, awaited, ent, pass, prev,
                   bIn, bOut, input>>

\* `let wikilinks = Self::get_wikilinks(&content);`
file_get_wikilinks_call ==
    /\ pc = "text"
    /\ output = <<>>
    /\ output' = <<Call("get_wikilinks", FileBuilder_get_wikilinks(input.content))>>
    /\ UNCHANGED <<walk, index_blocks, pc, error, cursor, doc, items, btasks, ftasks,
                   block_ids, file_ids, graph, uuid, queue, db, awaited, ent, pass, prev,
                   bIn, bOut, input>>

FileTextNext ==
    \/ file_get_properties_call
    \/ file_get_wikilinks_call
    \/ file_get_tags_call

FileTextSpec == FileTextInit /\ [][FileTextNext]_vars

\* ------------------------------------------------ FileBuilder::get_title

RECURSIVE replace(_, _, _)

\* str::replace: every occurrence of `from`, found from the left without
\* overlap, becomes `to`.
replace(s, from, to) ==
    IF s = <<>> THEN <<>>
    ELSE IF HasAt(s, 1, from)
         THEN to \o replace(SubSeq(s, Len(from) + 1, Len(s)), from, to)
         ELSE <<s[1]>> \o replace(Tail(s), from, to)

\* Path::file_name: what follows the last `/` of the path.
file_name(path) ==
    LET slashes == {i \in DOMAIN path : path[i] = "/"}
        last == IF slashes = {} THEN 0
                ELSE CHOOSE i \in slashes : \A j \in slashes : j <= i
    IN SubSeq(path, last + 1, Len(path))

Extension == <<".", "m", "d">>

Separator == <<"_", "_", "_">>

\* FileBuilder::get_title: `file_name.replace(".md", "").replace("___", "/")`
FileBuilder_get_title(path) ==
    replace(replace(file_name(path), Extension, <<>>), Separator, <<"/">>)

\* What the stems of the file names are made of.
NamePieces == { <<"a">>, <<"b">>, <<"_">>, Separator, Extension }

\* The directories the files are in.
Dirs == { <<"p">>, <<"q", "/", "r">> }

\* The path of a file the walker yields: its name ends with the extension
\* (MdWalker's pattern `*.md`).
TitleInit ==
    /\ PipelineIdle
    /\ pc = "text"
    /\ input \in {d \o <<"/">> \o stem \o Extension :
                    d \in Dirs, stem \in TextsOf(NamePieces)}
    /\ output = <<>>

\* `let title = Self::get_title(..);`
get_title_call ==
    /\ pc = "text"
    /\ output = <<>>
    /\ output' = <<Call("get_title", FileBuilder_get_title(input))>>
    /\ UNCHANGED <<walk, index_blocks, pc, error, cursor, doc, items, btasks, ftasks,
                   block_ids, file_ids, graph, uuid, queue, db, awaited, ent, pass, prev,
                   bIn, bOut, input>>

TitleNext == get_title_call

TitleSpec == TitleInit /\ [][TitleNext]_vars


\* ------------------------------------------------- FileBuilder::build

\* Most root children of a document handed to FileBuilder::build on its own.
MaxSections == 3

\* A markdown::mdast node with its text: Text carries a value, the others
\* their children.
MdNode(type, value, children) == [type |-> type, value |-> value, children |-> children]

Text(value) == MdNode("Text", value, <<>>)

RECURSIVE text_values(_, _), paragraph_texts(_, _)

\* The values of the Text nodes among `nodes`, from the k-th on, joined.
text_values(nodes, k) ==
    IF k > Len(nodes) THEN <<>>
    ELSE (IF nodes[k].type = "Text" THEN nodes[k].value ELSE <<>>)
         \o text_values(nodes, k + 1)

\* The Text values under the Paragraphs among `nodes`, from the k-th on.
paragraph_texts(nodes, k) ==
    IF k > Len(nodes) THEN <<>>
    ELSE (IF nodes[k].type = "Paragraph" THEN text_values(nodes[k].children, 1) ELSE <<>>)
         \o paragraph_texts(nodes, k + 1)

\* FileBuilder::get_top_text: the Text values under the Paragraphs that are
\* children of the root's children; `unwrap` panics (ok = FALSE) on a child
\* of the root that cannot have children.
get_top_text(ast) ==
    IF \E k \in DOMAIN ast.children : ~has_children(ast.children[k])
    THEN [ok |-> FALSE, text |-> <<>>]
    ELSE [ok |-> TRUE, text |-> paragraph_texts(children_of_all(ast.children, 1), 1)]

NoBuiltFile ==
    [id |-> None, path |-> <<>>, title |-> <<>>, properties |-> <<>>,
     wikilinks |-> <<>>, tags |-> <<>>]

\* FileBuilder::build with path and ast set: the top text (a panic ends the
\* call), the content read from the path (`?`), then a new uuid (the n+1-th
\* generated) and the fields.
FileBuilder_build(path, ast, content, readable, n) ==
    LET top == get_top_text(ast)
    IN IF ~top.ok THEN [status |-> "panic", file |-> NoBuiltFile]
       ELSE IF ~readable THEN [status |-> "err", file |-> NoBuiltFile]
       ELSE [status |-> "ok",
             file |-> [id |-> Uuid(n + 1),
                       path |-> path,
                       title |-> FileBuilder_get_title(path),
                       properties |-> FileBuilder_get_properties(top.text),
                       wikilinks |-> FileBuilder_get_wikilinks(content),
                       tags |-> FileBuilder_get_tags(top.text, content)]]

\* The parts a document is made of, each a child of the root with the text
\* it is parsed from: a paragraph with a property, a paragraph with a tags
\* line, a list whose item holds a property, a block quote whose paragraph
\* holds a property, a thematic break.
Sections ==
    { [node |-> MdNode("Paragraph", <<>>, <<Text(<<"f", "o", "o", ":", ":", " ", "b", "a", "r">>)>>),
       text |-> <<"f", "o", "o", ":", ":", " ", "b", "a", "r", "\n", "\n">>],
      [node |-> MdNode("Paragraph", <<>>, <<Text(<<"t", "a", "g", "s", ":", ":", " ", "u">>)>>),
       text |-> <<"t", "a", "g", "s", ":", ":", " ", "u", "\n", "\n">>],
      [node |-> MdNode("List", <<>>,
                  <<MdNode("ListItem", <<>>,
                      <<MdNode("Paragraph", <<>>,
                          <<Text(<<"b", "a", "z", ":", ":", " ", "q", "u", "x">>)>>)>>)>>),
       text |-> <<"-", " ", "b", "a", "z", ":", ":", " ", "q", "u", "x", "\n", "\n">>],
      [node |-> MdNode("BlockQuote", <<>>,
                  <<MdNode("Paragraph", <<>>, <<Text(<<"k", ":", ":", " ", "v">>)>>)>>),
       text |-> <<">", " ", "k", ":", ":", " ", "v", "\n", "\n">>],
      [node |-> MdNode("ThematicBreak", <<>>, <<>>),
       text |-> <<"-", "-", "-", "\n", "\n">>] }

\* The documents: up to MaxSections parts, no list directly behind another
\* (the two would be parsed as one list).
SectionLists ==
    UNION {{parts \in [1..n -> Sections] :
              \A k \in 1..(n - 1) :
                 ~(parts[k].node.type = "List" /\ parts[k + 1].node.type = "List")}
           : n \in 0..MaxSections}

RECURSIVE section_texts(_, _)

section_texts(parts, k) ==
    IF k > Len(parts) THEN <<>> ELSE parts[k].text \o section_texts(parts, k + 1)

\* What the walker read and parsed, and whether the file can still be read
\* when FileBuilder reads it again.
BuildInputs ==
    {[path |-> <<"p", "/", "a", ".", "m", "d">>,
      ast |-> MdNode("Root", <<>>, [k \in DOMAIN parts |-> parts[k].node]),
      content |-> section_texts(parts, 1),
      readable |-> r] : parts \in SectionLists, r \in BOOLEAN}

FileBuildInit ==
    /\ PipelineIdle
    /\ pc = "text"
    /\ input \in BuildInputs
    /\ output = <<>>

\* `let top_text = Self::get_top_text(&ast);`
get_top_text_call ==
    /\ pc = "text"
    /\ output = <<>>
    /\ output' = <<Call("get_top_text", get_top_text(input.ast))>>
    /\ UNCHANGED <<walk, index_blocks, pc, error, cursor, doc, items, btasks, ftasks,
                   block_ids, file_ids, graph, uuid, queue, db, awaited, ent, pass, prev,
                   bIn, bOut, input>>

\* `FileBuilder::new().with_path(path).with_ast(ast).build()`
file_build_call ==
    /\ pc = "text"
    /\ output = <<>>
    /\ LET r == FileBuilder_build(input.path, input.ast, input.content, input.readable, uuid)
       IN /\ output' = <<Call("build", r)>>
          /\ uuid' = IF r.status = "ok" THEN uuid + 1 ELSE uuid
    /\ UNCHANGED <<walk, index_blocks, pc, error, cursor, doc, items, btasks, ftasks,
                   block_ids, file_ids, graph, queue, db, awaited, ent, pass, prev,
                   bIn, bOut, input>>

FileBuildNext ==
    \/ get_top_text_call
    \/ file_build_call

FileBuildSpec == FileBuildInit /\ [][FileBuildNext]_vars

\* ------------------------------------------------- Block::add_edges

\* Most tags, and most wikilinks, of a Block handed to add_edges on its own.
MaxTitles == 2

\* The nodes a graph may hold, in the order they were added: the pages a and
\* b, the Block b2 and the Block a1.
NodePool ==
    <<GraphNode("File", "f1", "a"), GraphNode("File", "f2", "b"),
      GraphNode("Block", "b2", None), GraphNode("Block", "a1", None)>>

\* The graphs: any of the pool's nodes, without edges or with one edge
\* added before.
Graphs ==
    {g \in {[nodes |-> SelectSeq(NodePool, LAMBDA n : n.id \in ids), edges |-> es] :
               ids \in SUBSET {"f1", "f2", "b2", "a1"}, es \in {<<>>, <<<<1, 1>>>>}} :
        g.edges = <<>> \/ g.nodes # <<>>}

TitleLists == UNION {[1..n -> {"a", "b"}] : n \in 0..MaxTitles}

\* The Blocks: a1, with or without the parent b2.
LinkedBlocks ==
    {Block("a1", "t1", "f1", parent, tags, wikilinks) :
        parent \in {None, "b2"}, tags \in TitleLists, wikilinks \in TitleLists}

\* graph_link has read a Block back and is about to call its add_edges.
EdgesInit ==
    /\ PipelineIdle
    /\ pc = "text"
    /\ input \in {[block |-> b, graph |-> g] : b \in LinkedBlocks, g \in Graphs}
    /\ output = <<>>

\* `block.add_edges(&mut self.graph)`: the graph is left as add_edges made
\* it, whatever it returned.
add_edges_call ==
    /\ pc = "text"
    /\ output = <<>>
    /\ LET r == add_edges(input.block, input.graph)
       IN /\ graph' = r.graph
          /\ output' = <<Call("add_edges", r.ok)>>
    /\ UNCHANGED <<walk, index_blocks, pc, error, cursor, doc, items, btasks, ftasks,
                   block_ids, file_ids, uuid, queue, db, awaited, ent, pass, prev,
                   bIn, bOut, input>>

EdgesNext == add_edges_call

EdgesSpec == EdgesInit /\ [][EdgesNext]_vars

\* ================================================================== claims

RECURSIVE subtree_texts(_), count_items(_), count_seq(_, _)

\* The texts of the list items in a node's subtree (the node included).
subtree_texts(node) ==
    (IF node.type = "ListItem" THEN {node.text} ELSE {})
      \cup UNION {subtree_texts(node.children[k]) : k \in DOMAIN node.children}

\* The number of list items in a node's subtree (the node included).
count_items(node) ==
    (IF node.type = "ListItem" THEN 1 ELSE 0) + count_seq(node.children, 1)

count_seq(nodes, k) ==
    IF k > Len(nodes) THEN 0 ELSE count_items(nodes[k]) + count_seq(nodes, k + 1)

\* The list items of a List among the root's children, with their nested items.
ListedTexts(ast) ==
    UNION {subtree_texts(ast.children[k]) :
             k \in {j \in DOMAIN ast.children : ast.children[j].type = "List"}}

HasNode(kind, e) ==
    \E n \in DOMAIN graph.nodes : graph.nodes[n].kind = kind /\ ent[n] = e

\* The tasks this run has submitted and not yet seen completed by a wait.
Outstanding == {k \in DOMAIN queue : queue[k].pass = pass /\ k \notin awaited}

\* C1: while index_files runs, the graph has no edge until the ingest walk is
\* over (every entry of the walk visited, the File node of every document and
\* the Block nodes the walk inserts for it in the graph) and every write
\* submitted during the walk has been processed and awaited.
C1_NoEdgeBeforeWalkDone ==
    graph.edges # <<>> =>
        /\ pc \in {"link", "done", "failed"}
        /\ cursor > Len(walk)
        /\ \A i \in DOMAIN walk :
             /\ walk[i].ok
             /\ HasNode("File", Entity(walk[i].path, ""))
             /\ index_blocks =>
                  \A t \in ListedTexts(walk[i].ast) : HasNode("Block", Entity(walk[i].path, t))
        /\ Outstanding = {}
        /\ \A k \in DOMAIN queue : queue[k].status = "succeeded"

\* C1 witness: linking has added edges for a walk of two documents with blocks.
C1_Witness ==
    /\ Len(graph.edges) >= 2
    /\ \E k \in DOMAIN graph.edges : graph.nodes[graph.edges[k][2]].kind = "Block"
    /\ Len(walk) = 2
    /\ index_blocks
    /\ \E k \in DOMAIN queue : queue[k].index = "blocks"
    /\ \E k \in DOMAIN queue : queue[k].index = "files"

\* The nodes of one kind that stand for entity e.
NodesOf(kind, e) ==
    {n \in DOMAIN graph.nodes : graph.nodes[n].kind = kind /\ ent[n] = e}

\* The path of the File a Block belongs to, by its file_id.
PathOf(file_id) ==
    LET n == find({i \in DOMAIN graph.nodes :
                     graph.nodes[i].kind = "File" /\ graph.nodes[i].id = file_id})
    IN ent[n].path

\* The Blocks this run has submitted to the store.
SubmittedBlocks ==
    UNION {Range(queue[k].docs) :
             k \in {j \in DOMAIN queue : queue[j].index = "blocks" /\ queue[j].pass = pass}}

\* an earlier document, File or Block, is outstanding.
C3_NoWriteOutstandingAtNextFile ==
    (pc = "walk" /\ cursor <= Len(walk)) => Outstanding = {}

\* C3 (amended): during the walk every outstanding Block write belongs to the
\* document being ingested, and none is outstanding when the Indexer turns to
\* the next entry; the File writes stay outstanding, one per document
\* ingested, until the wait loop after the walk, and none is outstanding once
\* linking has started.
C3_BlockBarrierPerFile ==
    /\ pc \in {"walk", "blocks", "bsubmit", "bwait", "fsubmit"} =>
         /\ \A k \in Outstanding :
              queue[k].index = "blocks" => \A b \in Range(queue[k].docs) : b.file_id = doc.id
         /\ {k \in Outstanding : queue[k].index = "files"} = Range(ftasks)
         /\ Len(ftasks) = cursor - 1
    /\ pc \in {"walk", "fsubmit"} => \A k \in Outstanding : queue[k].index = "files"
    /\ pc \in {"link", "done"} => Outstanding = {}

\* C3 witness: the Indexer stands at the second document; the Block write of
\* the first has been awaited and its File write has not.
C3_Witness ==
    /\ pc = "walk"
    /\ cursor = 2
    /\ cursor <= Len(walk)
    /\ \E k \in awaited : queue[k].index = "blocks"
    /\ \E k \in Outstanding : queue[k].index = "files"

\* C4 (as claimed): an Err entry of the walk is skipped. A run that met no store
\* failure and built a File of every Ok entry it came to visits every entry,
\* has the File node of every Ok entry in the graph, and ends in the linking
\* phase (Ok, or a linking error).
C4_InputErrorSkipped ==
    (pc \in {"done", "failed"} /\ error \notin {"store", "build", "panic"}) =>
        /\ error # "input"
        /\ cursor > Len(walk)
        /\ \A i \in DOMAIN walk : walk[i].ok => HasNode("File", Entity(walk[i].path, ""))

\* C5: a store failure makes index_files return the error, and from then on
\* no document is ingested, no node or edge added and no write submitted.
C5_StoreFailureFatal ==
    /\ [](error = "store" => pc = "failed")
    /\ [][error = "store" =>
            /\ pc' = "failed"
            /\ graph' = graph
            /\ cursor' = cursor
            /\ doc' = doc
            /\ Len(queue') = Len(queue)]_vars

\* C5 witness: a store failure ended the run while entries of the walk and
\* submitted writes were still pending.
C5_Witness ==
    /\ pc = "failed"
    /\ error = "store"
    /\ cursor < Len(walk)
    /\ Outstanding # {}

\* The titles a Block refers to for which the graph has no File node.
Dangling(block) ==
    {t \in Range(block.tags) \cup Range(block.wikilinks) : find_title(graph, t) = 0}

\* The Block graph_link is about to link, once read back, refers to a title
\* without a File node.
AtDanglingBlock ==
    /\ pc = "link"
    /\ block_ids # <<>>
    /\ Head(block_ids) \in DOMAIN db.blocks
    /\ Dangling(db.blocks[Head(block_ids)]) # {}

\* C6: graph_link never gets past a Block with a tag or wikilink whose title
\* has no File node: add_edges fails on it and index_files returns the error;
\* and no run that ends Ok has linked such a Block (one with a node).
C6_StrictLinking ==
    /\ [][AtDanglingBlock => (block_ids' = block_ids /\ pc' \in {"link", "failed"})]_vars
    /\ [](pc = "done" => \A id \in DOMAIN db.blocks :
                           get_node_index(db.blocks[id], graph) # 0
                             => Dangling(db.blocks[id]) = {})

\* C6 witness: index_files has failed in the linking phase at a Block whose
\* wikilink names a title no file has (its tags all resolve).
C6_Witness ==
    /\ pc = "failed"
    /\ error = "link"
    /\ block_ids # <<>>
    /\ Head(block_ids) \in DOMAIN db.blocks
    /\ LET b == db.blocks[Head(block_ids)]
       IN /\ \E k \in DOMAIN b.wikilinks : find_title(graph, b.wikilinks[k]) = 0
          /\ \A k \in DOMAIN b.tags : find_title(graph, b.tags[k]) # 0

\* The edges that join a Block to another entity.
BlockEdges(edges) == {e \in edges : \E x \in e : x.content # ""}

\* C7 (as claimed): a second run over the same documents, delivered in any
\* order, succeeds or fails as the first did and, when both end Ok, has
\* joined the same Blocks to the same entities (runs that the store or an
\* unreadable file made fail aside).
C7_WalkOrderIndependent ==
    (pass = 2 /\ pc \in {"done", "failed"} /\ ~Disturbed(Outcome) /\ ~Disturbed(prev.outcome)) =>
        /\ (Outcome = "ok") = (prev.outcome = "ok")
        /\ Outcome = "ok" => BlockEdges(EntityEdges) = BlockEdges(prev.edges)

\* A second run that delivers the documents in the order of the first ends as
\* the first did, with the same edges: what the store kept of the first run
\* does not reach the second.
SameOrderSameResult ==
    (pass = 2 /\ pc \in {"done", "failed"} /\ ~Disturbed(Outcome) /\ ~Disturbed(prev.outcome)
       /\ walk = prev.walk) =>
        /\ Outcome = prev.outcome
        /\ Outcome = "ok" => EntityEdges = prev.edges

\* Nodes a and b are joined by an edge.
Joined(a, b) ==
    \E k \in DOMAIN graph.edges : graph.edges[k] \in {<<a, b>>, <<b, a>>}

\* C8 (as claimed): after a successful linking phase every stored Block that
\* has a node is joined to every File node whose title is one of its tags or
\* wikilinks, also when several File nodes have that title.
C8_EdgeToEachTitledFile ==
    pc = "done" =>
        \A id \in DOMAIN db.blocks :
          \A f \in DOMAIN graph.nodes :
            ( /\ get_node_index(db.blocks[id], graph) # 0
              /\ graph.nodes[f].kind = "File"
              /\ graph.nodes[f].title \in
                   Range(db.blocks[id].tags) \cup Range(db.blocks[id].wikilinks) )
            => \E n \in DOMAIN graph.nodes :
                 /\ graph.nodes[n].kind = "Block"
                 /\ graph.nodes[n].id = id
                 /\ Joined(n, f)

RECURSIVE parent_pairs(_), ancestor_pairs(_)

\* The list items directly nested in a list item: those of its child Lists.
nested_items(item) ==
    UNION { {l.children[k] : k \in {j \in DOMAIN l.children :
                                      l.children[j].type = "ListItem"}}
            : l \in {c \in Range(item.children) : c.type = "List"} }

\* <<text of a list item, text of an item directly nested in it>>, for the
\* items of a list item's subtree.
parent_pairs(item) ==
    {<<item.text, c.text>> : c \in nested_items(item)}
      \cup UNION {parent_pairs(c) : c \in nested_items(item)}

\* <<text of a list item, text of an item anywhere below it>>, likewise.
ancestor_pairs(item) ==
    {<<item.text, t>> : t \in subtree_texts(item) \ {item.text}}
      \cup UNION {ancestor_pairs(c) : c \in nested_items(item)}

\* The positions in the built Blocks of the Block with the given content.
At(text) == {k \in DOMAIN bOut : bOut[k].content = text}

\* C9: the Blocks built for a top-level list item of a document all carry the
\* id of that document's File;
\* the Block of the top-level item has no parent_block_id; the Block of a
\* nested item has as parent_block_id the id of the Block of the item directly
\* enclosing it, which is another of the built Blocks, with the same file_id.
C9_FileAndParentIds ==
    bOut # <<>> =>
        /\ \E c \in DOMAIN walk :
             /\ walk[c].ok
             /\ walk[c].path = doc.path
             /\ bIn \in {it.item : it \in Range(top_items(walk[c].ast.children, 1))}
        /\ doc.id # None
        /\ \A k \in DOMAIN bOut :
             /\ bOut[k].file_id = doc.id
             /\ bOut[k].content \in subtree_texts(bIn)
        /\ At(bIn.text) # {}
        /\ \A k \in At(bIn.text) : bOut[k].parent_block_id = None
        /\ \A pr \in parent_pairs(bIn) :
             /\ At(pr[2]) # {}
             /\ \A k \in At(pr[2]) :
                  \E j \in At(pr[1]) :
                    /\ j # k
                    /\ bOut[k].parent_block_id = bOut[j].id
                    /\ bOut[j].file_id = bOut[k].file_id

\* C9's case: index_blocks has built and submitted an item nested two deep,
\* its Block pointing at its parent's Block, that one at the top-level one's.
C9_Witness ==
    /\ pc = "blocks"
    /\ btasks # <<>>
    /\ \E i, j, k \in DOMAIN bOut :
         /\ bOut[k].parent_block_id = bOut[j].id
         /\ bOut[j].parent_block_id = bOut[i].id
         /\ bOut[i].parent_block_id = None
         /\ bOut[i].content = bIn.text
         /\ bOut[k].file_id = doc.id

\* C10: BlockBuilder::build on a list item returns a non-empty list with one
\* Block for the item and one for each list item nested anywhere in it, the
\* item's own Block last, the Block of every nested item before the Block of
\* each item that encloses it.
C10_BuildOrder ==
    pc = "built" =>
        /\ bOut # <<>>
        /\ Len(bOut) = (count_items(bIn) - 1) + 1
        /\ bOut[Len(bOut)].content = bIn.text
        /\ \A t \in subtree_texts(bIn) : Cardinality(At(t)) = 1
        /\ \A pr \in ancestor_pairs(bIn) :
             \A j \in At(pr[1]), k \in At(pr[2]) : k < j

\* C10's case: build has returned the Blocks of an item with nested items two
\* deep, MaxNodes of them in all.
C10_Witness ==
    /\ pc = "built"
    /\ Len(bOut) = MaxNodes
    /\ \E pr \in parent_pairs(bIn) : \E qr \in parent_pairs(bIn) : pr[2] = qr[1]

\* The documents of the walk for which index_blocks has returned Ok.
BlocksIndexed ==
    {c \in DOMAIN walk :
       /\ index_blocks
       /\ walk[c].ok
       /\ \/ c < cursor
          \/ c = cursor /\ pc = "fsubmit"}

\* The id of the File built for the c-th entry of the walk.
FileIdOf(c) ==
    LET n == CHOOSE n \in DOMAIN graph.nodes :
               graph.nodes[n].kind = "File" /\ ent[n] = Entity(walk[c].path, "")
    IN graph.nodes[n].id

\* The Block documents the store holds for the c-th entry of the walk.
StoredBlocksOf(c) ==
    {id \in DOMAIN db.blocks : db.blocks[id].file_id = FileIdOf(c)}

\* C11 (as claimed): once index_blocks has returned for a document, and from
\* then on while the run goes on, the blocks collection holds one Block
\* document for each list item of that document, nested items included, and
\* no other document of that file.
C11_OneStoredBlockPerItem ==
    pc # "failed" =>
        \A c \in BlocksIndexed :
            /\ Cardinality(StoredBlocksOf(c)) = count_items(walk[c].ast)
            /\ \A t \in subtree_texts(walk[c].ast) :
                 \E id \in StoredBlocksOf(c) : db.blocks[id].content = t

\* The tokens the text declares: each maximal run of [a-f0-9-] behind an `id:: `.
DeclaredIds(s) ==
    {SubSeq(s, i + 5, RunEnd(s, i + 5, Hex)) :
       i \in {j \in DOMAIN s : /\ j + 5 <= Len(s)
                               /\ SubSeq(s, j, j + 4) = <<"i", "d", ":", ":", " ">>
                               /\ s[j + 5] \in Hex}}

\* C13: on a text that holds `id:: <token>`, the token of [a-f0-9-]+, get_id
\* returns a declared token, whole; on a text that holds none it returns a
\* generated identifier that no other call has returned.
C13_GetId ==
    \A k \in CallsOf("get_id") :
        IF DeclaredIds(input) # {}
        THEN output[k].value \in DeclaredIds(input)
        ELSE /\ output[k].value \in {Uuid(n) : n \in 1..uuid}
             /\ \A l \in CallsOf("get_id") : l # k => output[l].value # output[k].value

\* C13's cases: two calls on a text that declares no id (it has other
\* annotations), or a call on a text that declares one behind other text.
C13_Witness ==
    \/ /\ Cardinality(CallsOf("get_id")) = 2
       /\ DeclaredIds(input) = {}
       /\ Len(input) > 4
    \/ /\ CallsOf("get_id") # {}
       /\ DeclaredIds(input) # {}
       /\ Head(input) = "f"

\* The positions where a `key:: value` pair of lowercase words starts.
PairStarts(s) ==
    {i \in DOMAIN s :
       /\ s[i] \in Lower
       /\ i = 1 \/ s[i - 1] \notin Lower
       /\ HasAt(s, RunEnd(s, i, Lower) + 1, <<":", ":", " ">>)
       /\ RunEnd(s, i, Lower) + 4 <= Len(s)
       /\ s[RunEnd(s, i, Lower) + 4] \in Lower}

KeyAt(s, i) == SubSeq(s, i, RunEnd(s, i, Lower))

ValueAt(s, i) ==
    SubSeq(s, RunEnd(s, i, Lower) + 4, RunEnd(s, RunEnd(s, i, Lower) + 4, Lower))

\* Those whose key is not at once the value of a pair in front of it.
OwnPairStarts(s) ==
    {i \in PairStarts(s) :
       ~(HasAt(s, i - 3, <<":", ":", " ">>) /\ i > 4 /\ s[i - 4] \in Lower)}

IdKey == <<"i", "d">>

\* C14 (as claimed): the map has no key "id" and holds every other
\* `key:: value` pair of the text.
C14_EveryPairReturned ==
    \A c \in CallsOf("get_properties") :
        /\ IdKey \notin DOMAIN output[c].value
        /\ \A i \in OwnPairStarts(input) :
             KeyAt(input, i) # IdKey =>
               /\ KeyAt(input, i) \in DOMAIN output[c].value
               /\ output[c].value[KeyAt(input, i)] = ValueAt(input, i)

\* C14 (amended): the map has no key "id"; each entry is a `key:: value` pair
\* of the text; every other key of a pair is a key of the map, and its value
\* is that of the last pair with the key.
C14_LastPairPerKey ==
    \A c \in CallsOf("get_properties") :
        /\ IdKey \notin DOMAIN output[c].value
        /\ \A k \in DOMAIN output[c].value :
             \E i \in PairStarts(input) :
               KeyAt(input, i) = k /\ ValueAt(input, i) = output[c].value[k]
        /\ \A i \in OwnPairStarts(input) :
             KeyAt(input, i) # IdKey =>
               /\ KeyAt(input, i) \in DOMAIN output[c].value
               /\ (\A j \in PairStarts(input) : j > i => KeyAt(input, j) # KeyAt(input, i))
                    => output[c].value[KeyAt(input, i)] = ValueAt(input, i)

\* C14's case: get_properties was called on a text with an `id:: ` pair and
\* another pair, or on one with two pairs of one key and different values.
C14_Witness ==
    /\ CallsOf("get_properties") # {}
    /\ \/ \E i, j \in OwnPairStarts(input) :
            KeyAt(input, i) = IdKey /\ KeyAt(input, j) # IdKey
       \/ \E i, j \in OwnPairStarts(input) :
            KeyAt(input, i) = KeyAt(input, j) /\ ValueAt(input, i) # ValueAt(input, j)

\* A bracket pair `[[x]]`, x of [\w\s]+, opens at position i of s.
BracketAt(s, i) ==
    /\ HasAt(s, i, <<"[", "[">>)
    /\ RunEnd(s, i + 2, Word \cup Space) >= i + 2
    /\ HasAt(s, RunEnd(s, i + 2, Word \cup Space) + 1, <<"]", "]">>)

\* What stands between its brackets.
BracketText(s, i) == SubSeq(s, i + 2, RunEnd(s, i + 2, Word \cup Space))

\* The bracket pairs behind whitespace, and those right behind a `#`.
PlainLinks(s) == {i \in DOMAIN s : BracketAt(s, i) /\ i > 1 /\ s[i - 1] \in Space}

HashLinks(s) == {i \in DOMAIN s : BracketAt(s, i) /\ i > 1 /\ s[i - 1] = "#"}

\* The `#word` forms: a `#` with a word character behind it.
HashWords(s) == {i \in DOMAIN s : s[i] = "#" /\ i < Len(s) /\ s[i + 1] \in Word}

\* The positions of the tags of either form (of the `#`), and the tag there.
TagPositions(s) == {i - 1 : i \in HashLinks(s)} \cup HashWords(s)

TagAt(s, i) ==
    IF i + 1 \in HashLinks(s) THEN BracketText(s, i + 1)
    ELSE SubSeq(s, i + 1, RunEnd(s, i + 1, Word))

\* The k-th smallest element of a set of positions.
Nth(S, k) == CHOOSE i \in S : Cardinality({j \in S : j <= i}) = k

\* C15: get_wikilinks returns the bracket pairs that stand behind whitespace,
\* each one (trimmed) in document order, and nothing else, so none that stands
\* behind a `#`; get_tags returns the tags of both forms, `#[[multi word]]`
\* and `#word`, in document order, and nothing else, so no bracket pair that
\* stands behind whitespace.
C15_LinksAndTagsDisjoint ==
    /\ \A c \in CallsOf("get_wikilinks") :
         /\ Len(output[c].value) = Cardinality(PlainLinks(input))
         /\ \A k \in DOMAIN output[c].value :
              output[c].value[k] = trim(BracketText(input, Nth(PlainLinks(input), k)))
    /\ \A c \in CallsOf("get_tags") :
         /\ Len(output[c].value) = Cardinality(TagPositions(input))
         /\ \A k \in DOMAIN output[c].value :
              output[c].value[k] = TagAt(input, Nth(TagPositions(input), k))

\* C15's case: one of the two functions was called on a text with a bracket
\* pair behind whitespace, one behind `#`, and a `#word`.
C15_Witness ==
    /\ CallsOf("get_wikilinks") \cup CallsOf("get_tags") # {}
    /\ PlainLinks(input) # {}
    /\ HashLinks(input) # {}
    /\ HashWords(input) # {}
    /\ output[1].value # <<>>

\* The text sub occurs in s.
Contains(s, sub) == \E i \in DOMAIN s : HasAt(s, i, sub)

\* The item's whole span, and what of it lies in front of its first nested list.
FullSpan(content, it) == Slice(content, it.position.start, it.position.end)

NestedLists(it) == {k \in DOMAIN it.children : it.children[k].type = "List"}

\* C12: the slice get_slice returns for a list item has no whitespace at
\* either end and starts with the item's own marker and text; for an item
\* without nested list it is the trimmed full span of the item; for one with
\* nested lists it is the trimmed text from the item's start to the start of
\* the first of them, and holds the text of no item nested in it.
C12_SliceIsOwnText ==
    \A c \in CallsOf("get_slice") :
        LET it == output[c].value.item
            slice == output[c].value.slice
        IN /\ slice = trim(slice)
           /\ HasAt(slice, 1, <<"-", " ">> \o it.label)
           /\ NestedLists(it) = {} => slice = trim(FullSpan(input.content, it))
           /\ NestedLists(it) # {} =>
                /\ slice = trim(Slice(input.content, it.position.start,
                                      it.children[Nth(NestedLists(it), 1)].position.start))
                /\ Len(slice) < Len(trim(FullSpan(input.content, it)))
           /\ \A sub \in items_under(it) \ {it} : ~Contains(slice, sub.label)

\* C12's case: get_slice was called on an item with an id line of its own and
\* nested items two deep.
C12_Witness ==
    /\ CallsOf("get_slice") # {}
    /\ LET it == output[1].value.item
       IN /\ Contains(output[1].value.slice, IdLine)
          /\ \E sub \in items_under(it) \ {it} : NestedLists(sub) # {}

\* The lines of a top text that `::` splits into a key and a value.
PairLines(top_text) ==
    {k \in DOMAIN lines(top_text) : Len(split(lines(top_text)[k], <<":", ":">>)) = 2}

LineKey(top_text, k) == trim(split(lines(top_text)[k], <<":", ":">>)[1])

LineValue(top_text, k) == trim(split(lines(top_text)[k], <<":", ":">>)[2])

\* C16 (as claimed): a File's tags are the trimmed values of its `tags::`
\* line in declared order, followed by the inline matches of the whole
\* content in document order.
C16_DeclaredThenInline ==
    \A c \in CallsOf("get_tags") :
        output[c].value =
            declared_tags(lines(input.top_text), 1) \o BlockBuilder_get_tags(input.content)

\* C17 (as claimed): a File's properties map the key of each `key:: value`
\* line of the top text to its value, both without the separator and without
\* surrounding whitespace, and hold neither "title" nor "tags".
C17_TrimmedPairsNoReserved ==
    \A c \in CallsOf("get_properties") :
        /\ TitleKey \notin DOMAIN output[c].value
        /\ TagsKey \notin DOMAIN output[c].value
        /\ \A k \in PairLines(input.top_text) :
             LineKey(input.top_text, k) \notin {TitleKey, TagsKey} =>
               /\ LineKey(input.top_text, k) \in DOMAIN output[c].value
               /\ output[c].value[LineKey(input.top_text, k)]
                    \in {LineValue(input.top_text, j) :
                           j \in {j \in PairLines(input.top_text) :
                                    LineKey(input.top_text, j) = LineKey(input.top_text, k)}}

\* The file name without its trailing extension.
StripExtension(name) ==
    IF HasAt(name, Len(name) - 2, Extension) THEN SubSeq(name, 1, Len(name) - 3) ELSE name

\* C18 (as claimed): the title is the file name with only its trailing
\* extension stripped and every separator `___` replaced by `/`, whatever the
\* directory.
C18_TitleOfFileName ==
    \A c \in CallsOf("get_title") :
        output[c].value = replace(StripExtension(file_name(input)), Separator, <<"/">>)

\* The title written back as a file name.
encode(title) == replace(title, <<"/">>, Separator) \o Extension

\* C19 (as claimed): the title of a file name `name.md`, with each `/`
\* replaced by `___` and the extension appended, is the file name again.
C19_TitleRoundTrip ==
    \A c \in CallsOf("get_title") : encode(output[c].value) = file_name(input)

\* The edges with a Block at one end, in the order they were added.
BlockEdgeSeq(edges) ==
    SelectSeq(edges, LAMBDA e : \E x \in {e[1], e[2]} : graph.nodes[x].kind = "Block")

\* How many of the edges join the two nodes of `pair`.
Copies(edges, pair) == Cardinality({i \in DOMAIN edges : {edges[i][1], edges[i][2]} = pair})

NodePairs == {{a, b} : a \in DOMAIN graph.nodes, b \in DOMAIN graph.nodes}

\* C20 (as claimed): a second linking pass over the linked graph, no node
\* added in between, leaves the multiset of edges as it was, and a single
\* pass never puts two edges between the same pair of nodes.
C20_LinkingIdempotent ==
    /\ (pass = 2 /\ pc = "done") =>
         \A pair \in NodePairs :
            Copies(BlockEdgeSeq(graph.edges), pair) = Copies(BlockEdgeSeq(prev.edges), pair)
    /\ pass = 1 =>
         \A pair \in NodePairs : Copies(BlockEdgeSeq(graph.edges), pair) <= 1

\* The write of the document `id` into `index` was submitted in this pass and
\* its completion has been observed.
WriteObserved(index, id) ==
    \E k \in awaited :
        /\ queue[k].index = index
        /\ queue[k].pass = pass
        /\ \E d \in DOMAIN queue[k].docs : queue[k].docs[d].id = id

\* C21: every id the linking phase has yet to read was written by a task
\* submitted in the same pass whose completion was observed before, and the
\* document is in the store, so the read cannot miss it.
C21_LinkReadsAfterObservedWrites ==
    pc = "link" =>
        /\ \A k \in DOMAIN block_ids :
             /\ WriteObserved("blocks", block_ids[k])
             /\ block_ids[k] \in DOMAIN db.blocks
        /\ \A k \in DOMAIN file_ids :
             /\ WriteObserved("files", file_ids[k])
             /\ file_ids[k] \in DOMAIN db.files

\* The linking phase is about to read a Block, with a File still to read.
C21_Witness ==
    /\ pc = "link"
    /\ block_ids # <<>>
    /\ file_ids # <<>>
    /\ graph.edges # <<>>

\* The root's children in front of its first List.
BeforeFirstList(ast) ==
    LET listAt == {k \in DOMAIN ast.children : ast.children[k].type = "List"}
    IN SubSeq(ast.children, 1, IF listAt = {} THEN Len(ast.children) ELSE Least(listAt) - 1)

\* The Text leaves of the root's paragraph children in front of the first
\* List, joined.
LeadingText(ast) == paragraph_texts(BeforeFirstList(ast), 1)

\* C22 (as claimed): the text scanned for the File's declarations is the
\* text of the root's paragraph children in front of the first list, so the
\* File's properties are those declared there and no others.
C22_TopTextIsLeadingText ==
    /\ \A c \in CallsOf("get_top_text") :
         output[c].value.ok => output[c].value.text = LeadingText(input.ast)
    /\ \A c \in CallsOf("build") :
         output[c].value.status = "ok" =>
            output[c].value.file.properties =
                FileBuilder_get_properties(LeadingText(input.ast))

\* C23 (as claimed): FileBuilder::build returns a File exactly when the root
\* has at least one child, whatever the children are (the file being
\* readable), and changes nothing but the File it returns.
C23_OneFilePerNonEmptyTree ==
    \A c \in CallsOf("build") :
        /\ input.readable =>
             (output[c].value.status = "ok" <=> Len(input.ast.children) >= 1)
        /\ graph = EmptyGraph /\ db = EmptyDb /\ queue = <<>>

\* The bracket pairs of s that do not stand right behind a `#`.
UnhashedLinks(s) == {i \in DOMAIN s : BracketAt(s, i) /\ ~(i > 1 /\ s[i - 1] = "#")}

\* C24 (as claimed): a File's wikilinks are the titles of all bracket links
\* of the content that are not hashtag-qualified, wherever they stand (at the
\* first character, right behind another link), in document order, each as
\* often as it occurs.
C24_EveryPlainLinkListed ==
    \A c \in CallsOf("get_wikilinks") :
        /\ Len(output[c].value) = Cardinality(UnhashedLinks(input.content))
        /\ \A k \in DOMAIN output[c].value :
             output[c].value[k] =
                trim(BracketText(input.content, Nth(UnhashedLinks(input.content), k)))

\* Both runs have submitted all their writes and seen them completed: each
\* got as far as the linking phase.
BothIngested ==
    /\ pass = 2
    /\ prev.outcome \in {"ok", "link"}
    /\ \/ pc \in {"link", "done"}
       \/ pc = "failed" /\ error = "link"

\* The ids generated so far.
GeneratedIds == {Uuid(n) : n \in 1..uuid}

\* The documents a run wrote into a collection.
Written(index, run) ==
    UNION {Range(queue[k].docs) :
             k \in {j \in DOMAIN queue : queue[j].index = index /\ queue[j].pass = run}}

\* C25: after two runs over the same documents the files collection holds
\* two File documents, with different ids, for each document; a Block with a
\* declared id is written under that id by both runs, and what is stored
\* under it is what the second run wrote (it belongs to a File of the second
\* run).
C25_FilesDuplicatedDeclaredBlocksReplaced ==
    BothIngested =>
        /\ \A i \in DOMAIN walk :
             Cardinality({id \in DOMAIN db.files : db.files[id].path = walk[i].path}) = 2
        /\ \A b \in Written("blocks", 1) :
             b.id \notin GeneratedIds =>
                /\ \E b2 \in Written("blocks", 2) : b2.id = b.id /\ b2.content = b.content
                /\ db.blocks[b.id] \in Written("blocks", 2)
                /\ db.blocks[b.id].file_id \in {f.id : f \in Written("files", 2)}

\* Two runs have ended Ok over a document with a Block of declared id.
C25_Witness ==
    /\ BothIngested
    /\ pc = "done"
    /\ prev.outcome = "ok"
    /\ \E b \in Written("blocks", 1) : b.id \notin GeneratedIds
    /\ Cardinality(DOMAIN db.files) >= 4

\* The relations of a Block in the order claimed: its parent, its tags, its
\* wikilinks.
Relations(block) ==
    (IF block.parent_block_id = None THEN <<>>
     ELSE <<[kind |-> "Block", key |-> block.parent_block_id]>>)
    \o [k \in DOMAIN block.tags |-> [kind |-> "File", key |-> block.tags[k]]]
    \o [k \in DOMAIN block.wikilinks |-> [kind |-> "File", key |-> block.wikilinks[k]]]

\* The nodes of g a relation may resolve to.
Targets(g, rel) ==
    {i \in DOMAIN g.nodes :
        /\ g.nodes[i].kind = rel.kind
        /\ IF rel.kind = "Block" THEN g.nodes[i].id = rel.key
           ELSE g.nodes[i].title = rel.key}

\* The Block's own nodes in g.
OwnNodes(g, block) ==
    {i \in DOMAIN g.nodes : g.nodes[i].kind = "Block" /\ g.nodes[i].id = block.id}

\* The first relation without a target, one past the last if all have one.
FirstMissing(g, block) ==
    Least({k \in DOMAIN Relations(block) : Targets(g, Relations(block)[k]) = {}}
            \cup {Len(Relations(block)) + 1})

\* C26: add_edges leaves the nodes as they are; without a node of its own it
\* fails and adds no edge; otherwise it adds, behind the edges there were,
\* one edge from the target of each relation to the own node, in the order
\* parent, tags, wikilinks, up to the first relation without a target, and
\* fails exactly if there is one.
C26_AddEdgesOrderNoRollback ==
    \A c \in CallsOf("add_edges") :
        LET g == input.graph
            b == input.block
            n == FirstMissing(g, b)
        IN /\ graph.nodes = g.nodes
           /\ OwnNodes(g, b) = {} => (~output[c].value /\ graph.edges = g.edges)
           /\ OwnNodes(g, b) # {} =>
                /\ output[c].value = (n > Len(Relations(b)))
                /\ graph.edges =
                     g.edges \o [k \in 1..(n - 1) |->
                                   <<Least(Targets(g, Relations(b)[k])), Least(OwnNodes(g, b))>>]

\* add_edges has failed on a wikilink after the parent and a tag were
\* resolved: their edges are in the graph.
C26_Witness ==
    /\ CallsOf("add_edges") # {}
    /\ ~output[1].value
    /\ input.block.parent_block_id # None
    /\ FirstMissing(input.graph, input.block) = 2 + Len(input.block.tags)
    /\ Len(input.block.tags) >= 1
    /\ Len(graph.edges) >= Len(input.graph.edges) + 2

====
